---------------------------- MODULE Spec2Model ----------------------------
(***************************************************************************)
(* A model of the deep-research worker: the orchestration task             *)
(* (tasks.py: deep_search_task, publish_progress, call_scraper_and_wait),  *)
(* the report generator it drives (deep_search.py: develop_report,         *)
(* _develop_with_research_pipeline, _generate_markdown, _generate_html,    *)
(* _reconstruct_context, WebScraper.scrape_urls) and the query planner     *)
(* (query_transformer.py).                                                 *)
(*                                                                         *)
(* One job is modelled.  An action is one resumption of the job: the code  *)
(* that runs from the return of one external call (planner LLM, search     *)
(* provider, scraper, extractor LLM, generator LLM, summarizer LLM) to the *)
(* next one.  trace records, in program order, every event the generator   *)
(* yields and every external call it issues; published records every       *)
(* update handed to publish_progress for channel job:{id}.                 *)
(*                                                                         *)
(* tasks.py iterates generator.develop_app of EnhancedHTMLAppGenerator, a  *)
(* class that deep_search.py does not define; the generator modelled here  *)
(* is the one the source holds, EnhancedMarkdownReportGenerator, with      *)
(* develop_report as the iterated method, the task's loop consuming each   *)
(* yielded event as it is produced.                                        *)
(*                                                                         *)
(* Thirteen specifications share the state:                                *)
(*   Spec           the job under every generator configuration, history   *)
(*                  and plan, its Redis connection up;                     *)
(*   SpecTransport  the job with the Redis client present or None, the     *)
(*                  connection failing before the task starts or during    *)
(*                  the searches and coming back once; channel holds the   *)
(*                  updates that reached channel job:{id};                 *)
(*   SpecText       _generate_html and _generate_markdown applied to one   *)
(*                  LLM response text;                                     *)
(*   SpecPlanner    get_transformed_query applied to one outcome of its    *)
(*                  LLM call, called on an instance that has a client and  *)
(*                  called as the pipeline calls it;                       *)
(*   SpecScraper    call_scraper_and_wait applied to one outcome of the    *)
(*                  scrape task it sends;                                  *)
(*   SpecDelivery   the job with the broker of celery_app.py: the task's   *)
(*                  message acknowledged late and delivered again when     *)
(*                  the worker is lost before the acknowledgement;         *)
(*   SpecCancel     the job whose coroutine is cancelled at an await;      *)
(*   SpecHtml       HTMLAppGenerator.process_request                       *)
(*                  (json_html_generator.py) applied to one request;       *)
(*   SpecItems      the readers of a list of scrape items picking its      *)
(*                  successful ones;                                       *)
(*   SpecDirect     WebScraper.scrape_urls applied to one outcome of its   *)
(*                  request;                                               *)
(*   SpecChunker    two scrape_and_extract calls (scraper_core.py) on one  *)
(*                  event loop and the module's chunker;                   *)
(*   SpecTabs       the worker_with_tab tasks of one browser and its       *)
(*                  semaphore;                                             *)
(*   SpecPool       the browsers launched over the successive calls of     *)
(*                  one worker process.                                    *)
(***************************************************************************)
EXTENDS Integers, Sequences, FiniteSets, TLC

\* ------------------------------------------------------------------ bounds

\* Longest plan (number of search queries) the planner is taken to return.
MaxPlanLen == 7

\* ------------------------------------------------------- program constants

\* tasks.py:358  EnhancedHTMLAppGenerator(max_search_queries=5, ...)
max_search_queries == 5

\* tasks.py:359  max_urls_to_scrape=5
max_urls_to_scrape == 5

\* ------------------------------------------------------------------- state

VARIABLES
    pc,                   \* where the job is: the external call it waits on
    use_multi_stage,      \* develop_report argument
    enable_scraping,      \* develop_report argument
    scraper_callback,     \* TRUE: tasks.py injected call_scraper_and_wait
    history_arg,          \* deep_search_task's conversation_history argument
    conversation_history, \* generator.conversation_history
    current_markdown,     \* generator.current_markdown
    plan,                 \* transform_result of the planner
    search_queries,       \* the pipeline's local list of queries to search
    qi,                   \* number of queries searched so far
    all_urls,             \* the job's deduplicated url list
    all_search_results,   \* dict query -> result list
    scraped_results,      \* the pipeline's scraped_results
    structured_data,      \* the pipeline's structured_data
    extractor_outcome,    \* how the extractor's LLM call ended
    generate_calls,       \* arguments of each _generate_markdown call
    markdown,             \* develop_report's local markdown
    analysis_summary,     \* develop_report's local analysis_summary
    trace,                \* yields and external calls, in program order
    published,            \* updates handed to publish_progress, in order
    redis_client,         \* tasks.py:36-47 and the state of its connection
    channel,              \* updates published on the channel job:{id}
    final_sources,        \* deep_search_task locals
    final_app,
    final_content,
    final_reasoning_steps,
    gen_mode,             \* generator function applied to llm_text
    llm_text,             \* an LLM response text
    artifact_body,        \* the artifact body made of llm_text
    planner_response,     \* what the planner's LLM call gives
    planner_plan,         \* the plan get_transformed_query yields
    scrape_outcome,       \* how the scrape task sent to scraper_queue ends
    scraped_data,         \* what call_scraper_and_wait returns for it
    message,              \* the task's message at the broker
    deliveries,           \* number of times the broker delivered the message
    earlier_runs,         \* how each earlier execution of the task left the channel
    html_pc,              \* where HTMLAppGenerator.process_request stands
    max_attempts,         \* process_request's max_attempts argument
    user_request,         \* process_request's user_request, as rebound in its loop
    current_json,         \* HTMLAppGenerator.current_json
    json_before,          \* current_json as it was when process_request was called
    attempts,             \* process_request's local attempts
    last_error,           \* process_request's local last_error
    llm_attempts,         \* calls of generate_json made for the request
    html_result,          \* what process_request returned
    html_history,         \* HTMLAppGenerator.conversation_history
    scrape_items,         \* a list of scrape items, as a scraper returns it
    selected,             \* the items each reader of the list takes as successful
    scrape_request,       \* WebScraper.scrape_urls: the urls and how the request ends
    scrape_events,        \* WebScraper.scrape_urls: the events one invocation yielded
    chunker,              \* scraper_core._chunker, the module's global TextChunker
    chunk_calls,          \* the scrape_and_extract calls in progress in one process
    semaphore,            \* free slots of one browser's Semaphore
    open_pages,           \* pages open in that browser
    tab_workers,          \* worker_with_tab tasks on that browser, counted by position
    browser_pool,         \* scraper_core._browser_pool, the module's global pool
    live_browsers,        \* browsers launched in the process and not closed
    pool_call,            \* the scrape_and_extract call under way and its local pool
    pool_calls            \* the calls the process made so far and how they ended

inputs == <<use_multi_stage, enable_scraping, scraper_callback, history_arg>>

generator_state == <<conversation_history, current_markdown>>

pipeline_locals == <<plan, search_queries, qi, all_urls, all_search_results,
                     scraped_results, structured_data, extractor_outcome, generate_calls,
                     markdown, analysis_summary>>

task_locals == <<final_sources, final_app, final_content, final_reasoning_steps>>

\* State of the generator functions and of the planner taken alone.
text_vars == <<gen_mode, llm_text, artifact_body>>

planner_vars == <<planner_response, planner_plan>>

scraper_vars == <<scrape_outcome, scraped_data>>

\* State of the task's message at the broker.
delivery_vars == <<message, deliveries, earlier_runs>>

\* State of the scrape worker (scraper_core.py) and of the readers of its
\* results.
items_vars == <<scrape_items, selected>>

\* State of one invocation of the direct scraper taken alone.
direct_vars == <<scrape_request, scrape_events>>

\* State of scraper_core's global chunker and of the calls that use it.
chunker_vars == <<chunker, chunk_calls>>

\* State of one browser of a pool and of the tabs opened in it.
tabs_vars == <<semaphore, open_pages, tab_workers>>

\* State of the browsers of one worker process over its successive calls.
pool_vars == <<browser_pool, live_browsers, pool_call, pool_calls>>

worker_vars == <<items_vars, direct_vars, chunker_vars, tabs_vars, pool_vars>>

\* State of the HTML app generator of json_html_generator.py.
html_vars == <<html_pc, max_attempts, user_request, current_json, json_before, attempts,
               last_error, llm_attempts, html_result, html_history>>

vars == <<pc, inputs, generator_state, pipeline_locals, trace, published,
          redis_client, channel, task_locals, text_vars, planner_vars, scraper_vars,
          delivery_vars, html_vars, worker_vars>>

\* ------------------------------------------------------------- small values

\* Python's None for a text or a list valued attribute.
NoneText == <<"None">>

NoneHistory == <<[role |-> "None", content |-> "None"]>>

IsNone(h) == h = NoneHistory

Msg(r, c) == [role |-> r, content |-> c]

\* The user's query string (full_query of the task).
UserQuery == "user_query"

\* Queries a plan can hold, in the order the planner returns them.
PlanQueries == <<"a", "b", "c", "d", "e", "f", "g", "h", "i", "j">>

Urls == {"u1", "u2", "u3"}

Min(a, b) == IF a <= b THEN a ELSE b

\* list[:n]
Take(s, n) == SubSeq(s, 1, Min(n, Len(s)))

\* list[n:]
Drop(s, n) == SubSeq(s, n + 1, Len(s))

\* x in list
InSeq(x, s) == \E i \in 1..Len(s) : s[i] = x

Range(s) == {s[i] : i \in 1..Len(s)}


\* ------------------------------------------------------------------- texts
\* A text is a sequence of atoms.  An atom stands for the characters of its
\* name; "FENCE" is a run of three backquotes, " " a run of whitespace, "x"
\* one character of other text and "PAD" 500 characters of other text.

AtomLen(a) ==
    CASE a = "FENCE"     -> 3
      [] a = "html"      -> 4
      [] a = "md"        -> 2
      [] a = "markdown"  -> 8
      [] a = "<!DOCTYPE" -> 9
      [] a = "<!doctype" -> 9
      [] a = "<html"     -> 5
      [] a = "<HTML"     -> 5
      [] a = "PAD"       -> 500
      [] OTHER           -> 1

\* str.lower()
LowerAtom(a) ==
    CASE a = "<!DOCTYPE" -> "<!doctype"
      [] a = "<HTML"     -> "<html"
      [] OTHER           -> a

Lower(t) == [i \in 1..Len(t) |-> LowerAtom(t[i])]

\* str.startswith(p)
StartsWith(t, p) == Len(t) >= Len(p) /\ SubSeq(t, 1, Len(p)) = p

\* str.endswith(p)
EndsWith(t, p) ==
    Len(t) >= Len(p) /\ SubSeq(t, Len(t) - Len(p) + 1, Len(t)) = p

RECURSIVE LStrip(_)
LStrip(t) == IF t # <<>> /\ Head(t) = " " THEN LStrip(Tail(t)) ELSE t

RECURSIVE RStrip(_)
RStrip(t) ==
    IF t # <<>> /\ t[Len(t)] = " " THEN RStrip(SubSeq(t, 1, Len(t) - 1)) ELSE t

\* str.strip()
Strip(t) == RStrip(LStrip(t))

\* Number of characters of the first n atoms of t.
RECURSIVE CharLen(_, _)
CharLen(t, n) == IF n = 0 THEN 0 ELSE CharLen(t, n - 1) + AtomLen(t[n])

\* "##" in t[:w]
HasDoubleHashWithin(t, w) ==
    \E i \in 1..(Len(t) - 1) :
        t[i] = "#" /\ t[i + 1] = "#" /\ CharLen(t, i + 1) <= w

\* deep_search.py:2982  markdown_content[:500]
HeadingWindow == 500

\* deep_search.py:2971-2979, _generate_markdown: code fence clean-up.
StripMarkdownFences(t) ==
    LET a == IF StartsWith(t, <<"FENCE", "markdown">>) THEN Drop(t, 2)
             ELSE IF StartsWith(t, <<"FENCE", "md">>) THEN Drop(t, 2)
             ELSE IF StartsWith(t, <<"FENCE">>) THEN Drop(t, 1)
             ELSE t
        b == IF EndsWith(a, <<"FENCE">>) THEN SubSeq(a, 1, Len(a) - 1) ELSE a
    IN  Strip(b)

\* deep_search.py:2982  the test that decides whether a header is added.
LooksLikeMarkdown(t) ==
    StartsWith(t, <<"#">>) \/ HasDoubleHashWithin(t, HeadingWindow)

\* deep_search.py:2966-2984  the body _generate_markdown returns for the
\* LLM response text t ("# Generated Report\n\n" + content when wrapped).
MarkdownBody(t) ==
    LET c == StripMarkdownFences(Strip(t))
    IN  IF LooksLikeMarkdown(c) THEN c ELSE <<"#", " ", "x", " ">> \o c

\* deep_search.py:568-574, _generate_html: code fence clean-up.
StripHtmlFences(t) ==
    LET a == IF StartsWith(t, <<"FENCE", "html">>) THEN Drop(t, 2)
             ELSE IF StartsWith(t, <<"FENCE">>) THEN Drop(t, 1)
             ELSE t
        b == IF EndsWith(a, <<"FENCE">>) THEN SubSeq(a, 1, Len(a) - 1) ELSE a
    IN  Strip(b)

\* A variant of LooksLikeHtml that accepts the marker anywhere in the text.
LooksLikeHtmlAnywhere(t) ==
    \E i \in 1..Len(t) : Lower(t)[i] \in {"<!doctype", "<html"}

\* deep_search.py:577  the test that decides whether the text is wrapped.
LooksLikeHtml(t) ==
    StartsWith(Lower(t), <<"<!doctype">>) \/ StartsWith(Lower(t), <<"<html">>)

\* deep_search.py:579-589  the minimal document the text is wrapped in,
\* and json_html_generator.py:929-943 (_wrap_in_document), which opens the
\* same way.
WrapInDocument(c) ==
    <<"<!DOCTYPE", " ", "html", "x", " ", "<html", "x", " ">> \o c \o <<" ", "x">>

\* deep_search.py:565-597  the body _generate_html yields for the LLM
\* response text t.
HtmlBody(t) ==
    LET c == StripHtmlFences(Strip(t))
    IN  IF LooksLikeHtml(c) THEN c ELSE WrapInDocument(c)


\* ------------------------------------------------------------------ events

\* An event the generator yields to its consumer.
Yield(t, c) == [kind |-> "yield", type |-> t, content |-> c, urls |-> <<>>]

\* deep_search.py:1070-1071  {"type":"sources","content":{transformed_query, urls}}
SourcesEvent(q, us) ==
    [kind |-> "yield", type |-> "sources", content |-> q, urls |-> us]

\* deep_search.py:103,136,166,208,240,268  {"type":"error","content": results}
\* of the direct scraper: one errored entry per requested url.
ScrapeErrorEvent(us) ==
    [kind |-> "yield", type |-> "error", content |-> "scrape_error", urls |-> us]

\* An external call the job issues: what is called, with which query and urls.
Call(t, q, us) == [kind |-> "call", type |-> t, content |-> q, urls |-> us]

\* The events the consumer of the generator has received.
stream == SelectSeq(trace, LAMBDA e : e.kind = "yield")

\* tasks.py:407-412  the update published for a reasoning event.
ReasoningUpdate(e) ==
    [type |-> "reasoning", step |-> e.content, content |-> e.content]

\* A variant of SourcesUpdate that publishes the count without the urls.
SourcesUpdateWithoutUrls(e) ==
    [type |-> "reasoning", step |-> "Sources Found", content |-> e.content,
     found_sources |-> Len(e.urls), sources |-> <<>>, query |-> e.content]

\* tasks.py:421-430  the update published for a sources event.
SourcesUpdate(e) ==
    [type |-> "reasoning", step |-> "Sources Found", content |-> e.content,
     found_sources |-> Len(e.urls), sources |-> e.urls, query |-> e.content]

\* A variant of ErrorUpdate without the fatal flag.
ErrorUpdateNotFatal == [type |-> "error", fatal |-> FALSE]

\* tasks.py:480-485  the update published by the task's exception handler.
ErrorUpdate == [type |-> "error", fatal |-> TRUE]

\* tasks.py:452-461  final_result.
CompleteUpdate(st) ==
    [type |-> "complete", content |-> st.final_content,
     sources |-> st.final_sources,
     reasoning_steps |-> final_reasoning_steps,
     app |-> st.final_app]

\* tasks.py:49-58  publish_progress for the updates us, one after the other:
\* without a client it returns at once; an exception of redis_client.publish
\* is caught and printed, and the update is not on the channel.
Publish(ch, us) ==
    IF redis_client \in {"up", "restored"} THEN ch \o us ELSE ch

IsTerminal(u) ==
    u.type = "complete" \/ (u.type = "error" /\ u.fatal)

\* tasks.py:402-446  the body of the task's loop for one yielded event.
ConsumeOne(st, e) ==
    CASE e.type = "reasoning" ->
            [st EXCEPT !.published = Append(@, ReasoningUpdate(e))]
      [] e.type = "sources" ->
            [st EXCEPT !.final_sources = Append(@, e.urls),
                       !.published = Append(@, SourcesUpdate(e))]
      [] e.type \in {"html", "markdown"} ->
            [st EXCEPT !.final_app = e.content]
      [] e.type = "analysis_summary" ->
            [st EXCEPT !.final_content = e.content]
      [] OTHER -> st

RECURSIVE Consume(_, _)
Consume(st, evs) ==
    IF evs = <<>> THEN st
    ELSE Consume(IF Head(evs).kind = "yield" THEN ConsumeOne(st, Head(evs))
                 ELSE st,
                 Tail(evs))

TaskState ==
    [published |-> published, final_sources |-> final_sources,
     final_app |-> final_app, final_content |-> final_content]

\* A variant of TaskStep whose publish_progress lets the exception of
\* redis_client.publish through: the first update handed over while the
\* transport is not up ends the task in its handler.
TaskStepPublishRaises(evs, how) ==
    LET st  == Consume(TaskState, evs)
        out == CASE how = "complete" -> Append(st.published, CompleteUpdate(st))
                 [] how = "error"    -> Append(st.published, ErrorUpdate)
                 [] OTHER            -> st.published
        got == IF redis_client \in {"up", "restored"} \/ out = published
               THEN out
               ELSE Append(published, ErrorUpdate)
    IN  /\ trace' = trace \o evs
        /\ published' = got
        /\ channel' = Publish(channel, SubSeq(got, Len(published) + 1, Len(got)))
        /\ final_sources' = st.final_sources
        /\ final_app' = st.final_app
        /\ final_content' = st.final_content
        /\ UNCHANGED final_reasoning_steps

\* The job runs on: evs are yielded (and consumed by the task's loop) or
\* issued, in order.  how = "continue": the job then waits on its next
\* external call; "complete": the generator is exhausted and the task
\* publishes final_result (tasks.py:449-469); "error": an exception reaches
\* the task's handler, which publishes the error update (tasks.py:471-487).
TaskStep(evs, how) ==
    LET st  == Consume(TaskState, evs)
        out == CASE how = "complete" -> Append(st.published, CompleteUpdate(st))
                 [] how = "error"    -> Append(st.published, ErrorUpdate)
                 [] OTHER            -> st.published
    IN  /\ trace' = trace \o evs
        /\ published' = out
        /\ channel' = Publish(channel, SubSeq(out, Len(published) + 1, Len(out)))
        /\ final_sources' = st.final_sources
        /\ final_app' = st.final_app
        /\ final_content' = st.final_content
        /\ UNCHANGED final_reasoning_steps


\* ------------------------------------------------------ conversation history

SystemPrompt == <<"system_prompt">>

\* deep_search.py:2807-2935  the prompt _generate_markdown builds.
GeneratePrompt == <<"report_prompt">>

\* deep_search.py:2990-2999  "Generated comprehensive markdown report. ..."
SummaryText == <<"Generated comprehensive markdown report.">>

\* deep_search.py:748
ReportPlaceholder == <<"Generated Markdown report with requested features.">>

\* Conversation histories a job is started with: None (the task's default),
\* the empty list, prior turns whose assistant turns are artifact bodies
\* (a Markdown report, an HTML document), and prior turns with a system
\* message and an assistant summary.
HistoryInputs ==
    { NoneHistory,
      <<>>,
      << Msg("user", <<"x">>), Msg("assistant", <<"#", " ", "x">>),
         Msg("user", <<"x">>), Msg("assistant", <<"<!DOCTYPE", "x">>) >>,
      << Msg("system", SystemPrompt), Msg("user", <<"x">>),
         Msg("assistant", SummaryText) >> }

\* deep_search.py:739-751  the loop of _reconstruct_context over the messages.
RECURSIVE ReconstructMessages(_)
ReconstructMessages(h) ==
    IF h = <<>> THEN <<>>
    ELSE LET m == Head(h)
         IN  (CASE m.role = "user" -> <<m>>
                [] m.role = "assistant" ->
                      IF StartsWith(m.content, <<"#">>)
                      THEN <<Msg("assistant", ReportPlaceholder)>>
                      ELSE <<m>>
                [] OTHER -> <<>>)
             \o ReconstructMessages(Tail(h))

\* deep_search.py:720-751  conversation_history after _reconstruct_context.
ReconstructContext(h) ==
    (IF \E i \in 1..Len(h) : h[i].role = "system"
     THEN <<>>
     ELSE <<Msg("system", SystemPrompt)>>)
    \o ReconstructMessages(h)

\* deep_search.py:744-745  current_markdown after _reconstruct_context: the
\* last assistant content that starts with "#", if any.
RECURSIVE ReconstructMarkdown(_, _)
ReconstructMarkdown(h, cur) ==
    IF h = <<>> THEN cur
    ELSE ReconstructMarkdown(
             Tail(h),
             IF Head(h).role = "assistant" /\ StartsWith(Head(h).content, <<"#">>)
             THEN Head(h).content ELSE cur)

\* deep_search.py:2938-2947  what _generate_markdown appends to the history
\* before it calls the LLM.
HistoryWithPrompt(h) ==
    (IF h = <<>> THEN <<Msg("system", SystemPrompt)>> ELSE h)
    \o <<Msg("user", GeneratePrompt)>>

\* A variant of HistoryWithSummary that appends the artifact body.
HistoryWithBody(h, body) == Append(h, Msg("assistant", body))

\* deep_search.py:3001-3004  what _generate_markdown appends after the LLM
\* returned: the summary, not the body.
HistoryWithSummary(h, body) == Append(h, Msg("assistant", SummaryText))

\* ------------------------------------------------------------------ planner
\* The plan the pipeline receives as transformer_output (deep_search.py:
\* 1019-1036), taken as any plan the transformer's code can yield:
\* query_transformer.py:223-224 leaves no plan that needs web search without
\* a query, and the fallbacks (174-175, 190-195, 260-265) yield the one-query
\* plan [query].  As deep_search.py:1019 calls the static method, its self is
\* the user's prompt, self.client raises and the plan is the fallback of
\* lines 260-265; the other plans are the ones the method yields when its
\* LLM call returns.

Plan(w, qs, n) == [web_search_needed |-> w, search_queries |-> qs, note |-> n]

NoPlan == Plan(FALSE, <<>>, "none")

\* Lengths of the plans tried: none, fewer queries than the cap, and more.
PlanLengths == {0, 1, 2, 3, MaxPlanLen}

PlannerOutputs ==
    { Plan(TRUE, SubSeq(PlanQueries, 1, n), "Planning research") :
          n \in PlanLengths \ {0} }
    \cup
    { Plan(FALSE, SubSeq(PlanQueries, 1, n), "No web research needed") :
          n \in PlanLengths }
    \cup
    { Plan(TRUE, <<UserQuery>>, "Using fallback search strategy") }

\* A variant of CapQueries that does not cap.
CapQueriesUncapped(qs) == qs

\* deep_search.py:1039  transform_result['search_queries'][:self.max_search_queries]
CapQueries(qs) == Take(qs, max_search_queries)

\* A variant of SkipResearch that looks at the query list only.
SkipResearchQueriesOnly(w, qs) == qs = <<>>

\* deep_search.py:1045  if not web_search_needed or not search_queries
SkipResearch(w, qs) == ~w \/ qs = <<>>

\* deep_search.py:1056  search_queries = search_queries[1:]
QueriesToSearch(qs) == Drop(qs, 1)

\* -------------------------------------------------------------------- search

\* What the search provider returns for one query: nothing (also a failed
\* call, deep_search.py:326-328, 343-346), or hits, possibly naming a url
\* twice or a url another query returned.
SearchOutcomes == { <<>>, <<"u1", "u2">>, <<"u2", "u2", "u3">> }

\* A variant of NewUrls that does not deduplicate.
NewUrlsNoDedup(results, seen) == results

\* deep_search.py:1064-1068  currentUrls: the links of results not yet in
\* all_urls, each appended to all_urls as it is seen.
RECURSIVE NewUrls(_, _)
NewUrls(results, seen) ==
    IF results = <<>> THEN <<>>
    ELSE IF InSeq(Head(results), seen)
         THEN NewUrls(Tail(results), seen)
         ELSE <<Head(results)>> \o NewUrls(Tail(results), Append(seen, Head(results)))

\* A variant of ShouldScrape that ignores the flag.
ShouldScrapeAnyway(enable, urls) == urls # <<>>

\* deep_search.py:1082  if enable_scraping and all_urls
ShouldScrape(enable, urls) == enable /\ urls # <<>>

\* deep_search.py:1092  primary_query, from the queries left after the skip.
PrimaryQuery(qs) == IF qs # <<>> THEN qs[1] ELSE UserQuery

\* deep_search.py:1078-1092, 1174-1182  from the end of the search loop to the
\* next external call: the scraper (callback or direct) or, when scraping is
\* skipped, the extractor.
AfterSearches(urls, qs) ==
    IF ShouldScrape(enable_scraping, urls)
    THEN [pc |-> IF scraper_callback THEN "scraper_callback" ELSE "scrape_urls",
          evs |-> << Yield("reasoning", "found sources"),
                     Yield("reasoning", "performing deep analysis"),
                     Call(IF scraper_callback THEN "scraper_callback"
                          ELSE "scrape_urls",
                          PrimaryQuery(qs), Take(urls, max_urls_to_scrape)) >>]
    ELSE [pc |-> "extractor_llm",
          evs |-> << Yield("reasoning", "found sources"),
                     Yield("reasoning", "developing assets"),
                     Call("extractor_llm", UserQuery, <<>>) >>]


\* ----------------------------------------------------------------- scraping

ScrapeItem(u, err, chunk) == [url |-> u, error |-> err, best_chunk |-> chunk]

\* Every url scraped with a non-empty best chunk.
AllOk(urls) == [i \in 1..Len(urls) |-> ScrapeItem(urls[i], FALSE, <<"x">>)]

\* The first url failed, the others were scraped.
FirstFails(urls) ==
    [i \in 1..Len(urls) |->
        IF i = 1 THEN ScrapeItem(urls[i], TRUE, <<>>)
        ELSE ScrapeItem(urls[i], FALSE, <<"x">>)]

\* deep_search.py:92-102 (and 124-134, 154-164, ...)  one errored entry per url.
ErrorEntries(urls) == [i \in 1..Len(urls) |-> ScrapeItem(urls[i], TRUE, <<>>)]

ScrapeLists(urls) == { <<>>, AllOk(urls), FirstFails(urls) }

\* What scrape_task.get hands back to call_scraper_and_wait for the urls,
\* or the exception raised by send_task (the enqueue fails) or by get (a
\* time-out, a failed task).  shape is the outer form of the value: a dict
\* with the key data, a dict with the key results and no data, a list, or
\* anything else; inner is the value found under results: a list of items, a
\* non-empty dict, None, or no such key.
ScraperWireResults(urls) ==
    [shape : {"enqueue_failure", "timeout", "task_error", "other"},
     inner : {"none"}, items : {<<>>}]
    \cup
    [shape : {"data", "results", "list"}, inner : {"list"},
     items : ScrapeLists(urls)]
    \cup
    [shape : {"data", "results"}, inner : {"dict"}, items : {AllOk(urls)}]
    \cup
    [shape : {"data", "results"}, inner : {"None"}, items : {<<>>}]
    \cup
    [shape : {"data"}, inner : {"missing"}, items : {<<>>}]

\* A Python value the adapter returns: a list of items, or a dict of them.
Returned(t, items) == [type |-> t, items |-> items]

\* tasks.py:88-140  call_scraper_and_wait: the value it returns.  The inner
\* value is returned as it is when len() takes it (113-129); len(None)
\* raises TypeError at line 126, which the handler of 131-140 turns into [],
\* as it does every exception of send_task and get.
call_scraper_and_wait(result) ==
    CASE result.shape \in {"data", "results"} /\ result.inner = "dict" ->
            Returned("dict", result.items)
      [] result.shape \in {"data", "results", "list"} /\ result.inner = "list" ->
            Returned("list", result.items)
      [] OTHER -> Returned("list", <<>>)

\* deep_search.py:1110-1139  scraped_results after the call of the injected
\* callback: iterating a non-empty dict gives its keys, s.get raises
\* AttributeError on a key (1121) and the handler sets scraped_results = [].
ScraperCallbackResults(ret) ==
    IF ret.type = "list" THEN ret.items ELSE <<>>

\* The ways a request of the direct scraper ends: no response (time-out or
\* another exception), or a response with a status and a body.
DirectResponses ==
    { [body |-> b, status200 |-> TRUE, ok |-> TRUE, results |-> "list"] :
          b \in {"timeout", "exception"} }
    \cup
    [body : {"json_error", "list", "other"}, status200 : BOOLEAN,
     ok : {TRUE}, results : {"list"}]
    \cup
    [body : {"dict"}, status200 : BOOLEAN, ok : BOOLEAN,
     results : {"list", "notlist", "missing"}]

ScraperEvent(t, items) == [type |-> t, items |-> items]

\* deep_search.py:70-296  WebScraper.scrape_urls: the events it yields for
\* response r, requested urls and the result list items of the body.
ScrapeUrlsEvents(r, urls, items) ==
    LET errs == ErrorEntries(urls)
        err  == <<ScraperEvent("error", errs)>>
    IN  CASE r.body = "timeout"   -> err
          [] r.body = "exception" -> <<ScraperEvent("scrape_content", errs)>>
          [] OTHER ->
               (IF r.status200 THEN <<>> ELSE err)
               \o
               (CASE r.body = "json_error" ->
                        <<ScraperEvent("scrape_content", errs)>>
                  [] r.body = "list" -> <<ScraperEvent("scrape_content", items)>>
                  [] r.body = "dict" ->
                        (IF r.ok THEN <<>> ELSE err)
                        \o
                        (CASE r.results = "list" ->
                                 <<ScraperEvent("scrape_content", items)>>
                           [] r.results = "notlist" ->
                                 err \o <<ScraperEvent("scrape_content", errs)>>
                           [] OTHER -> err)
                  [] OTHER -> err)

\* deep_search.py:1158-1159  scraped_results after the loop over the events.
RECURSIVE LastScrapeContent(_, _)
LastScrapeContent(evs, cur) ==
    IF evs = <<>> THEN cur
    ELSE LastScrapeContent(
             Tail(evs),
             IF Head(evs).type = "scrape_content" THEN Head(evs).items ELSE cur)

\* deep_search.py:1171-1172  the scraper's error events, passed on.
ForwardedErrors(evs, urls) ==
    LET errs == SelectSeq(evs, LAMBDA e : e.type = "error")
    IN  [i \in 1..Len(errs) |-> ScrapeErrorEvent(urls)]

\* ----------------------------------------------------------------- dicts

EmptyDict == [k \in {} |-> <<>>]

DictSet(d, k, v) == [x \in DOMAIN d \cup {k} |-> IF x = k THEN v ELSE d[x]]

EmptyBag == "{}"

\* ----------------------------------------------------------------- the job

Running ==
    {"planner_llm", "search", "scraper_callback", "scrape_urls",
     "extractor_llm", "generator_llm", "generator_llm_direct", "summary_llm"}

NoResponse == [kind |-> "none"]

NoPlannerPlan ==
    [web_search_needed |-> FALSE, search_queries |-> <<>>,
     data_extraction_needed |-> FALSE, data_types |-> <<>>, yielded |-> FALSE]

TextIdle ==
    /\ gen_mode = "none"
    /\ llm_text = <<>>
    /\ artifact_body = NoneText

PlannerIdle ==
    /\ planner_response = NoResponse
    /\ planner_plan = NoPlannerPlan

NoScrapeOutcome ==
    [urls |-> <<>>, shape |-> "none", inner |-> "none", items |-> <<>>]

ScraperIdle ==
    /\ scrape_outcome = NoScrapeOutcome
    /\ scraped_data = Returned("none", <<>>)

\* The places that read a list of scrape items and pick its successful ones.
Readers == {"pipeline", "extractor", "generator", "summarizer", "statistics"}

NotRead == [done |-> FALSE, items |-> <<>>]

\* No scrape result is being read.
ItemsIdle ==
    /\ scrape_items = <<>>
    /\ selected = [r \in Readers |-> NotRead]

NoScrapeRequest == [response |-> "none", urls |-> <<>>, items |-> <<>>]

NotInvoked == [invoked |-> FALSE, events |-> <<>>]

\* No invocation of the direct scraper is being followed.
DirectIdle ==
    /\ scrape_request = NoScrapeRequest
    /\ scrape_events = NotInvoked

\* scraper_core.py:643  _chunker = TextChunker(chunk_size=400, overlap=50)
DefaultChunker == [chunk_size |-> 400, overlap |-> 50]

\* The scrape_and_extract calls followed in one worker process.
Calls == {"first", "second"}

NotCalled == [pc |-> "not_called", given |-> DefaultChunker, used |-> DefaultChunker]

\* No call of scrape_and_extract was made: the module is as imported.
ChunkerIdle ==
    /\ chunker = DefaultChunker
    /\ chunk_calls = [c \in Calls |-> NotCalled]

\* scraper_core.py:27  self.pool_size = 10, whatever the argument.
pool_size == 10

\* scraper_core.py:28  self.max_tabs_per_browser = 10, whatever the argument.
max_tabs_per_browser == 10

\* Where a worker_with_tab task is: created and waiting for the semaphore,
\* holding a slot and awaiting browser.new_page, scraping with its page
\* open, in the finally clause awaiting page.close after scrape_one returned
\* or raised, finished with a result or with an exception.
Positions ==
    {"created", "new_page", "scraping", "closing_returns", "closing_raises",
     "returned", "raised"}

NoWorkers == [p \in Positions |-> 0]

\* No browser has tabs: its semaphore is as BrowserPool.initialize made it.
TabsIdle ==
    /\ semaphore = max_tabs_per_browser
    /\ open_pages = 0
    /\ tab_workers = NoWorkers

NoPoolCall == [pc |-> "idle", launched |-> 0]

\* The worker process as started: no pool, no browser, no call made.
PoolIdle ==
    /\ browser_pool = "None"
    /\ live_browsers = 0
    /\ pool_call = NoPoolCall
    /\ pool_calls = <<>>

WorkerIdle ==
    /\ ItemsIdle
    /\ DirectIdle
    /\ ChunkerIdle
    /\ TabsIdle
    /\ PoolIdle

\* json_html_generator.py:1246  the default of process_request's max_attempts.
DefaultMaxAttempts == 3

NoHtmlResult == [success |-> FALSE, html |-> "None", attempts |-> 0]

\* json_html_generator.py:1240-1244  the HTML app generator as constructed,
\* no request under way.
HtmlIdle ==
    /\ html_pc = "idle"
    /\ max_attempts = DefaultMaxAttempts
    /\ user_request = "None"
    /\ current_json = "None"
    /\ json_before = "None"
    /\ attempts = 0
    /\ last_error = "None"
    /\ llm_attempts = 0
    /\ html_result = NoHtmlResult
    /\ html_history = <<>>

\* celery_app.py:22  task_acks_late: the broker has delivered the task's
\* message to a worker, for the first time, and holds it unacknowledged
\* until the execution ends.
FirstDelivery ==
    /\ message = "unacked"
    /\ deliveries = 1
    /\ earlier_runs = <<>>

\* The generator as constructed (deep_search.py:611-634) and the task's
\* locals as initialised (tasks.py:389-393).
Constructed ==
    /\ conversation_history = <<>>
    /\ current_markdown = NoneText
    /\ plan = NoPlan
    /\ search_queries = <<>>
    /\ qi = 0
    /\ all_urls = <<>>
    /\ all_search_results = EmptyDict
    /\ scraped_results = <<>>
    /\ structured_data = EmptyBag
    /\ extractor_outcome = "none"
    /\ generate_calls = <<>>
    /\ markdown = NoneText
    /\ analysis_summary = NoneText
    /\ trace = <<>>
    /\ published = <<>>
    /\ channel = <<>>
    /\ final_sources = <<>>
    /\ final_app = NoneText
    /\ final_content = <<>>
    /\ final_reasoning_steps = <<>>

Init ==
    /\ pc = "queued"
    /\ use_multi_stage \in BOOLEAN
    /\ enable_scraping \in BOOLEAN
    /\ scraper_callback \in BOOLEAN
    /\ history_arg \in HistoryInputs
    /\ redis_client = "up"
    /\ Constructed
    /\ TextIdle
    /\ PlannerIdle
    /\ ScraperIdle
    /\ FirstDelivery
    /\ HtmlIdle
    /\ WorkerIdle

\* tasks.py:352-402 and deep_search.py:671-683, 1016-1022: the task builds the
\* generator, hands it the history and starts iterating; develop_report
\* reconstructs the context of a non-empty history and, in multi-stage mode,
\* yields its first event and calls the planner.  In single-stage mode
\* develop_report awaits _develop_simple, an async generator, which raises
\* TypeError (deep_search.py:699, 1224-1247).
TaskStart ==
    /\ pc = "queued"
    /\ LET given == IF IsNone(history_arg) THEN <<>> ELSE history_arg
       IN  IF given # <<>>
           THEN /\ conversation_history' = ReconstructContext(given)
                /\ current_markdown' = ReconstructMarkdown(given, current_markdown)
           ELSE /\ conversation_history' = history_arg
                /\ UNCHANGED current_markdown
    /\ IF use_multi_stage
       THEN /\ TaskStep(<< Yield("reasoning", "Developing with a multi-stage pipeline"),
                           Call("planner_llm", UserQuery, <<>>) >>, "continue")
            /\ pc' = "planner_llm"
       ELSE /\ TaskStep(<<>>, "error")
            /\ pc' = "failed"
    /\ UNCHANGED <<inputs, redis_client, text_vars, planner_vars, scraper_vars, delivery_vars, html_vars, worker_vars, pipeline_locals>>

\* deep_search.py:2730-2959  _generate_markdown up to its LLM call, entered
\* after evs: with conversation_history None, list.append raises
\* AttributeError; otherwise the prompt is appended and the LLM is called.
EnterGenerate(evs, nextpc, results, scraped, data) ==
    IF IsNone(conversation_history)
    THEN /\ TaskStep(evs, "error")
         /\ pc' = "failed"
         /\ UNCHANGED <<conversation_history, generate_calls>>
    ELSE /\ TaskStep(evs \o <<Call("generator_llm", UserQuery, <<>>)>>, "continue")
         /\ pc' = nextpc
         /\ conversation_history' = HistoryWithPrompt(conversation_history)
         /\ generate_calls' =
               Append(generate_calls,
                      [search_results |-> results, scraped_results |-> scraped,
                       structured_data |-> data,
                       history_before |-> conversation_history])

\* deep_search.py:1023-1061  the planner's events arrive: its progress note
\* is yielded as a reasoning event, the plan is capped, and the pipeline
\* either generates directly, or drops the first query and searches the next.
PlannerReturns ==
    /\ pc = "planner_llm"
    /\ \E p \in PlannerOutputs :
          LET capped == CapQueries(p.search_queries)
              note   == Yield("reasoning", p.note)
              qs     == QueriesToSearch(capped)
              next   == AfterSearches(<<>>, qs)
          IN  /\ plan' = p
              /\ IF SkipResearch(p.web_search_needed, capped)
                 THEN /\ search_queries' = capped
                      /\ EnterGenerate(<<note, Yield("reasoning", "Developing report...")>>,
                                       "generator_llm_direct", EmptyDict, <<>>, EmptyBag)
                 ELSE /\ search_queries' = qs
                      /\ UNCHANGED <<conversation_history, generate_calls>>
                      /\ IF qs = <<>>
                         THEN /\ TaskStep(<<note>> \o next.evs, "continue")
                              /\ pc' = next.pc
                         ELSE /\ TaskStep(<<note, Call("search", qs[1], <<>>)>>, "continue")
                              /\ pc' = "search"
    /\ UNCHANGED <<inputs, redis_client, text_vars, planner_vars, scraper_vars, delivery_vars, html_vars, worker_vars, current_markdown, qi, all_urls, all_search_results,
                   scraped_results, structured_data, extractor_outcome, markdown, analysis_summary>>

\* deep_search.py:1061-1092  search_google returned for query qi+1: the new
\* urls are recorded and yielded as one sources event; then the next query
\* is searched (after the 0.3 s sleep), or the loop ends.
SearchReturns ==
    /\ pc = "search"
    /\ \E results \in SearchOutcomes :
          LET query == search_queries[qi + 1]
              fresh == NewUrls(results, all_urls)
              urls  == all_urls \o fresh
              ev    == SourcesEvent(query, fresh)
              next  == AfterSearches(urls, search_queries)
          IN  /\ all_search_results' = DictSet(all_search_results, query, results)
              /\ all_urls' = urls
              /\ qi' = qi + 1
              /\ IF qi + 1 < Len(search_queries)
                 THEN /\ TaskStep(<<ev, Call("search", search_queries[qi + 2], <<>>)>>,
                                  "continue")
                      /\ pc' = "search"
                 ELSE /\ TaskStep(<<ev>> \o next.evs, "continue")
                      /\ pc' = next.pc
    /\ UNCHANGED <<inputs, redis_client, text_vars, planner_vars, scraper_vars, delivery_vars, html_vars, worker_vars, generator_state, plan, search_queries, scraped_results,
                   structured_data, extractor_outcome, generate_calls, markdown, analysis_summary>>

\* The urls handed to the scraper by the call the job waits on.
urls_to_scrape == trace[Len(trace)].urls

\* A variant of ToExtractor that goes on without calling the extractor.
ToExtractorSkipped ==
    << Yield("reasoning", "developing assets") >>

\* deep_search.py:1180-1187  from the end of the scraping stage to the
\* extractor's LLM call.
ToExtractor ==
    << Yield("reasoning", "developing assets"), Call("extractor_llm", UserQuery, <<>>) >>

\* deep_search.py:1110-1139, 1180-1182 with tasks.py:67-140: the injected
\* callback returns (an exception of the callback leaves the empty list).
ScraperCallbackReturns ==
    /\ pc = "scraper_callback"
    /\ \E result \in ScraperWireResults(urls_to_scrape) :
          scraped_results' = ScraperCallbackResults(call_scraper_and_wait(result))
    /\ TaskStep(ToExtractor, "continue")
    /\ pc' = "extractor_llm"
    /\ UNCHANGED <<inputs, redis_client, text_vars, planner_vars, scraper_vars, delivery_vars, html_vars, worker_vars, generator_state, plan, search_queries, qi, all_urls,
                   all_search_results, structured_data, extractor_outcome, generate_calls,
                   markdown, analysis_summary>>

\* deep_search.py:1151-1172, 1180-1182 with 41-296: the direct scraper's
\* events are consumed.
DirectScraperReturns ==
    /\ pc = "scrape_urls"
    /\ \E r \in DirectResponses, items \in ScrapeLists(urls_to_scrape) :
          LET evs == ScrapeUrlsEvents(r, urls_to_scrape, items)
          IN  /\ scraped_results' = LastScrapeContent(evs, scraped_results)
              /\ TaskStep(ForwardedErrors(evs, urls_to_scrape) \o ToExtractor,
                          "continue")
    /\ pc' = "extractor_llm"
    /\ UNCHANGED <<inputs, redis_client, text_vars, planner_vars, scraper_vars, delivery_vars, html_vars, worker_vars, generator_state, plan, search_queries, qi, all_urls,
                   all_search_results, structured_data, extractor_outcome, generate_calls,
                   markdown, analysis_summary>>

\* How the extractor's LLM call ends: it raises, it exceeds the deadline of
\* asyncio.wait_for (deep_search.py:435-443), or it gives a response, with a
\* text that is JSON or is not.
ExtractorOutcomes == {"raises", "deadline", "response"}

\* A variant of extract_structured_data that returns data all the same.
extract_structured_data_keeps_bag(outcome) == "bag"

\* deep_search.py:423-480  DataExtractor.extract_structured_data: {} from
\* each of its exception handlers.  A response is read as
\* response.choices[0] (445), an attribute the Message of the Anthropic
\* client (26-28) does not have: AttributeError, handled at 477-480 before
\* the text is parsed.
extract_structured_data(outcome) ==
    CASE outcome = "deadline" -> EmptyBag
      [] outcome = "raises"   -> EmptyBag
      [] OTHER                -> EmptyBag

\* deep_search.py:1182-1205 with 423-480: the extractor returns its data
\* bag; _generate_markdown is entered.
ExtractorReturns ==
    /\ pc = "extractor_llm"
    /\ \E outcome \in ExtractorOutcomes :
          LET data == extract_structured_data(outcome)
          IN  /\ extractor_outcome' = outcome
              /\ structured_data' = data
              /\ EnterGenerate(<<>>, "generator_llm", all_search_results,
                               scraped_results, data)
    /\ UNCHANGED <<inputs, redis_client, text_vars, planner_vars, scraper_vars, delivery_vars, html_vars, worker_vars, current_markdown, plan, search_queries, qi, all_urls,
                   all_search_results, scraped_results, markdown, analysis_summary>>


\* Texts the generator LLM answers with while the job runs: a report that
\* opens with a heading, and plain text.
PipelineTexts == { <<"#", " ", "x">>, <<"x">> }

\* What the summarizer returns: the LLM's text, or the placeholder of
\* deep_search.py:1004-1006.
SummaryOutcomes ==
    { <<"analysis">>, <<"Unable to generate analytical summary">> }

\* A variant of FinishEvents that yields the analysis summary before the
\* artifact.
FinishEventsSummaryFirst(md, summ) ==
    << Yield("reasoning", "Developed complete research report...") >>
    \o (IF summ # NoneText /\ summ # <<>>
        THEN <<Yield("analysis_summary", summ)>> ELSE <<>>)
    \o << Yield("markdown", md), Yield("done", "done") >>

\* deep_search.py:701-713  the events develop_report yields at its end.
FinishEvents(md, summ) ==
    << Yield("reasoning", "Developed complete research report..."),
       Yield("markdown", md) >>
    \o (IF summ # NoneText /\ summ # <<>>
        THEN <<Yield("analysis_summary", summ)>> ELSE <<>>)
    \o <<Yield("done", "done")>>

\* A variant of GeneratorLLMReturns in which develop_report passes on the
\* pipeline's own markdown event instead of keeping it.
GeneratorLLMReturnsForwardingMarkdown ==
    /\ pc \in {"generator_llm", "generator_llm_direct"}
    /\ \E t \in PipelineTexts :
          LET body == MarkdownBody(t)
          IN  /\ current_markdown' = body
              /\ conversation_history' = HistoryWithSummary(conversation_history, body)
              /\ markdown' = body
              /\ IF pc = "generator_llm"
                 THEN /\ TaskStep(<< Yield("markdown", body),
                                     Yield("reasoning", "Analyzing research thought process..."),
                                     Call("summary_llm", UserQuery, <<>>) >>, "continue")
                      /\ pc' = "summary_llm"
                 ELSE /\ TaskStep(<<Yield("markdown", body)>>
                                      \o FinishEvents(body, analysis_summary), "complete")
                      /\ pc' = "completed"
    /\ UNCHANGED <<inputs, redis_client, text_vars, planner_vars, scraper_vars, delivery_vars, html_vars, worker_vars, plan, search_queries, qi, all_urls, all_search_results,
                   scraped_results, structured_data, extractor_outcome, generate_calls,
                   analysis_summary>>

\* deep_search.py:2966-3006, then 1050-1051 or 1207-1220, then (direct path)
\* 701-713 and tasks.py:449-469: the generator LLM answered.  The body is
\* cleaned, stored and summarised in the history; the research path goes on
\* to the summarizer, the direct path ends the run.
GeneratorLLMReturns ==
    /\ pc \in {"generator_llm", "generator_llm_direct"}
    /\ \E t \in PipelineTexts :
          LET body == MarkdownBody(t)
          IN  /\ current_markdown' = body
              /\ conversation_history' = HistoryWithSummary(conversation_history, body)
              /\ markdown' = body
              /\ IF pc = "generator_llm"
                 THEN /\ TaskStep(<< Yield("reasoning", "Analyzing research thought process..."),
                                     Call("summary_llm", UserQuery, <<>>) >>, "continue")
                      /\ pc' = "summary_llm"
                 ELSE /\ TaskStep(FinishEvents(body, analysis_summary), "complete")
                      /\ pc' = "completed"
    /\ UNCHANGED <<inputs, redis_client, text_vars, planner_vars, scraper_vars, delivery_vars, html_vars, worker_vars, plan, search_queries, qi, all_urls, all_search_results,
                   scraped_results, structured_data, extractor_outcome, generate_calls,
                   analysis_summary>>

\* deep_search.py:2959-2965 and tasks.py:471-487: the generator LLM call
\* raises; nothing catches it before the task's handler.
GeneratorLLMRaises ==
    /\ pc \in {"generator_llm", "generator_llm_direct"}
    /\ TaskStep(<<>>, "error")
    /\ pc' = "failed"
    /\ UNCHANGED <<inputs, redis_client, text_vars, planner_vars, scraper_vars, delivery_vars, html_vars, worker_vars, generator_state, pipeline_locals>>

\* A variant of SummaryReturns in which a summarizer call that failed or
\* timed out fails the run.
SummaryFailureIsFatal ==
    /\ pc = "summary_llm"
    /\ \E summ \in SummaryOutcomes :
          /\ analysis_summary' = summ
          /\ IF summ = <<"analysis">>
             THEN /\ TaskStep(FinishEvents(markdown, summ), "complete")
                  /\ pc' = "completed"
             ELSE /\ TaskStep(<<>>, "error")
                  /\ pc' = "failed"
    /\ UNCHANGED <<inputs, redis_client, text_vars, planner_vars, scraper_vars, delivery_vars, html_vars, worker_vars, generator_state, plan, search_queries, qi, all_urls,
                   all_search_results, scraped_results, structured_data, extractor_outcome,
                   generate_calls, markdown>>

\* deep_search.py:1214-1222, 689-713 and tasks.py:449-469: the summarizer
\* returned (its failure is the placeholder); develop_report yields its last
\* events and the task publishes final_result.
SummaryReturns ==
    /\ pc = "summary_llm"
    /\ \E summ \in SummaryOutcomes :
          /\ analysis_summary' = summ
          /\ TaskStep(FinishEvents(markdown, summ), "complete")
    /\ pc' = "completed"
    /\ UNCHANGED <<inputs, redis_client, text_vars, planner_vars, scraper_vars, delivery_vars, html_vars, worker_vars, generator_state, plan, search_queries, qi, all_urls,
                   all_search_results, scraped_results, structured_data, extractor_outcome,
                   generate_calls, markdown>>

\* tasks.py:325, 471-487: the soft time limit raises SoftTimeLimitExceeded in
\* the running task; the task's handler publishes the error update.  While
\* the task waits in call_scraper_and_wait the exception is raised inside
\* its try block and caught at tasks.py:131: that is an outcome of
\* ScraperCallbackReturns, and the run goes on.
SoftTimeLimit ==
    /\ pc \in Running \ {"scraper_callback"}
    /\ TaskStep(<<>>, "error")
    /\ pc' = "failed"
    /\ UNCHANGED <<inputs, redis_client, text_vars, planner_vars, scraper_vars, delivery_vars, html_vars, worker_vars, generator_state, pipeline_locals>>

\* tasks.py:321-328: the run is cut short at the external call it waits on
\* (the task is revoked and its worker terminated, or the hard time limit
\* kills it); the handler of tasks.py:471 does not run.
Cancel ==
    /\ pc \in Running
    /\ pc' = "cancelled"
    /\ UNCHANGED <<inputs, redis_client, text_vars, planner_vars, scraper_vars, delivery_vars, html_vars, worker_vars,
                   generator_state, pipeline_locals, trace, published,
                   channel, task_locals>>

Next ==
    \/ TaskStart
    \/ PlannerReturns
    \/ SearchReturns
    \/ ScraperCallbackReturns
    \/ DirectScraperReturns
    \/ ExtractorReturns
    \/ GeneratorLLMReturns
    \/ GeneratorLLMRaises
    \/ SummaryReturns
    \/ SoftTimeLimit
    \/ Cancel

Spec == Init /\ [][Next]_vars


\* ------------------------------------------- the generator functions alone
\* _generate_html and _generate_markdown applied to one LLM response text,
\* for every text of at most MaxTextLen atoms.

MaxTextLen == 4

HtmlAtoms == {"FENCE", "html", " ", "<!DOCTYPE", "<html", "<HTML", "x"}

MarkdownAtoms == {"FENCE", "md", "markdown", " ", "#", "x", "PAD"}

TextsOver(atoms, n) == UNION { [1..k -> atoms] : k \in 0..n }

job_vars == <<pc, inputs, generator_state, pipeline_locals, trace, published,
              redis_client, channel, task_locals, delivery_vars>>

\* No job is running.
JobIdle ==
    /\ pc = "idle"
    /\ use_multi_stage = TRUE
    /\ enable_scraping = TRUE
    /\ scraper_callback = TRUE
    /\ history_arg = <<>>
    /\ redis_client = "up"
    /\ Constructed

InitText ==
    /\ JobIdle
    /\ PlannerIdle
    /\ ScraperIdle
    /\ FirstDelivery
    /\ HtmlIdle
    /\ WorkerIdle
    /\ gen_mode \in {"_generate_html", "_generate_markdown"}
    /\ llm_text \in IF gen_mode = "_generate_html"
                    THEN TextsOver(HtmlAtoms, MaxTextLen)
                    ELSE TextsOver(MarkdownAtoms, MaxTextLen)
    /\ artifact_body = NoneText

\* deep_search.py:565-597
GenerateHtml ==
    /\ gen_mode = "_generate_html"
    /\ artifact_body = NoneText
    /\ artifact_body' = HtmlBody(llm_text)
    /\ UNCHANGED <<job_vars, planner_vars, scraper_vars, html_vars, worker_vars, gen_mode, llm_text>>

\* deep_search.py:2959-3006
GenerateMarkdown ==
    /\ gen_mode = "_generate_markdown"
    /\ artifact_body = NoneText
    /\ artifact_body' = MarkdownBody(llm_text)
    /\ UNCHANGED <<job_vars, planner_vars, scraper_vars, html_vars, worker_vars, gen_mode, llm_text>>

NextText ==
    \/ GenerateHtml
    \/ GenerateMarkdown

SpecText == InitText /\ [][NextText]_vars


\* --------------------------------------------------------- the planner alone
\* EnhancedQueryTransformer.get_transformed_query applied to one outcome of
\* its LLM call.  A query is a sequence of words; <<>> is the empty string and
\* <<" ">> a string of whitespace.  "2023" is a bare year of 2020-2024,
\* "2023-2025" a range of years written as one word, "'" an apostrophe and
\* "True" the substring True.

MaxQueries == 2

\* The user's query string, and the list of the earlier queries
\* (self.user_queries[:-1], deep_search.py:1021).
UserQueryText == <<"user", "question">>

PriorQueriesList == <<"[prior queries]">>

PlannerQueryTexts ==
    { <<>>, <<" ">>, <<"gdp">>, <<"gdp", "2023">>, <<"gdp", "2023-2025">>,
      <<"what", "'", "s">>, <<"True", "story">> }

\* JSON values of a flag of the plan: the booleans, the strings "true" and
\* "no", and a missing key.
JsonFlags == {"true", "false", "str_true", "str_no", "absent"}

\* What the call gives.
\*   bound   FALSE: the call of deep_search.py:1019-1022, which hands the
\*           static method the user's prompt as self and the list of earlier
\*           queries as query; self.client then raises AttributeError at
\*           line 107.  TRUE: self is an object with a client and query is
\*           the user's query.
\*   kind    the LLM call raises, or returns a text.
\*   fence   the text is bare, or opens with a fence marked json or JSON.
\*   syntax  the text holds a JSON object, a JSON value that is no object,
\*           or something json.loads rejects whatever its strings hold
\*           (prose, a trailing comma, nothing at all).
\*   the other fields are the values the text gives the keys of the plan.
PlannerResponses ==
    { [bound |-> bb, kind |-> "raise", fence |-> "none", syntax |-> "broken",
       web_search_needed |-> "absent", shape |-> "absent",
       search_queries |-> <<>>, data_extraction_needed |-> "true",
       data_types |-> "list"] : bb \in BOOLEAN }
    \cup
    { r \in [bound : {TRUE}, kind : {"text"}, fence : {"none", "json", "JSON"},
             syntax : {"object", "array", "broken"},
             web_search_needed : JsonFlags,
             shape : {"list", "scalar", "absent"},
             search_queries : TextsOver(PlannerQueryTexts, MaxQueries),
             data_extraction_needed : {"true", "false", "str_true"},
             data_types : {"list", "scalar"}] :
        /\ r.shape = "absent" => r.search_queries = <<>>
        /\ r.shape = "scalar" => Len(r.search_queries) = 1
        /\ r.syntax = "array" =>
              /\ r.fence = "none" /\ r.web_search_needed = "absent"
              /\ r.shape = "absent" /\ r.data_extraction_needed = "true"
              /\ r.data_types = "list" }

PlannerPlan(w, qs, de, dt) ==
    [web_search_needed |-> w, search_queries |-> qs,
     data_extraction_needed |-> de, data_types |-> dt, yielded |-> TRUE]

\* query_transformer.py:28  the query argument of the call.
QueryArgument(r) == IF r.bound THEN UserQueryText ELSE PriorQueriesList

\* query_transformer.py:259-277  emergency fallback
EmergencyFallback(r) == PlannerPlan(TRUE, <<QueryArgument(r)>>, FALSE, <<>>)

\* query_transformer.py:136-141  the replacements, applied to the whole text
\* and so to the words of every query in it.
CoerceWord(w) ==
    CASE w = "'"    -> "\""
      [] w = "True" -> "true"
      [] OTHER      -> w

CoerceText(q) == [i \in 1..Len(q) |-> CoerceWord(q[i])]

CoerceQueries(qs) == [i \in 1..Len(qs) |-> CoerceText(qs[i])]

\* query_transformer.py:122-149  whether json.loads accepts the cleaned text:
\* a fence marked JSON leaves the word JSON before the object, and a double
\* quote inside a string ends it early.
StrictParses(r) ==
    /\ r.syntax # "broken"
    /\ r.fence # "JSON"
    /\ \A i \in 1..Len(r.search_queries) :
          ~InSeq("\"", CoerceText(r.search_queries[i]))

\* The text between the brackets of the search_queries array, cleaned.
RECURSIVE ArrayText(_)
ArrayText(qs) ==
    IF qs = <<>> THEN <<>>
    ELSE <<"\"">> \o Head(qs) \o <<"\"">>
         \o (IF Len(qs) > 1 THEN <<", ">> ELSE <<>>)
         \o ArrayText(Tail(qs))

\* query_transformer.py:171  re.findall(r'"([^"]+)"', queries_str)
RECURSIVE FindAllQuoted(_)
FindAllQuoted(t) ==
    LET quotes == {i \in 1..Len(t) : t[i] = "\""}
    IN  IF quotes = {} THEN <<>>
        ELSE LET i == CHOOSE x \in quotes : \A y \in quotes : x <= y
                 later == {j \in quotes : j > i}
             IN  IF later = {} THEN <<>>
                 ELSE LET j == CHOOSE x \in later : \A y \in later : x <= y
                      IN  IF j = i + 1
                          THEN FindAllQuoted(SubSeq(t, j, Len(t)))
                          ELSE <<SubSeq(t, i + 1, j - 1)>>
                               \o FindAllQuoted(SubSeq(t, j + 1, Len(t)))

\* query_transformer.py:156-184  the fields the regular expressions recover
\* from a text json.loads rejected.
RegexRecovered(r) ==
    LET w  == IF r.web_search_needed \in {"true", "false"}
              THEN r.web_search_needed = "true" ELSE TRUE
        qs == IF r.shape = "list"
              THEN FindAllQuoted(ArrayText(CoerceQueries(r.search_queries)))
              ELSE <<>>
    IN  [web_search_needed |-> IF w THEN "true" ELSE "false",
         shape |-> "list",
         search_queries |-> IF qs = <<>> /\ w THEN <<QueryArgument(r)>> ELSE qs,
         data_extraction_needed |-> "true",
         data_types |-> "general"]

\* query_transformer.py:149  the object json.loads returns.
StrictParsed(r) ==
    [web_search_needed |-> r.web_search_needed,
     shape |-> r.shape,
     search_queries |-> CoerceQueries(r.search_queries),
     data_extraction_needed |-> r.data_extraction_needed,
     data_types |-> r.data_types]

\* query_transformer.py:204-205, 212-213  a flag after normalisation.
NormalizedFlag(f) == f \in {"true", "str_true"}

\* query_transformer.py:208-209, 220  search_queries after normalisation.
NormalizedQueries(d) ==
    IF d.shape = "list"
    THEN SelectSeq(d.search_queries, LAMBDA q : Strip(q) # <<>>)
    ELSE <<>>

\* query_transformer.py:204-224  normalisation of the extracted data d of the
\* response r.
NormalizedPlan(r, d) ==
    LET w  == NormalizedFlag(d.web_search_needed)
        qs == NormalizedQueries(d)
    IN  PlannerPlan(w,
                    IF w /\ qs = <<>> THEN <<QueryArgument(r)>> ELSE qs,
                    NormalizedFlag(d.data_extraction_needed),
                    CASE d.data_types = "list"    -> <<"statistics">>
                      [] d.data_types = "general" -> <<"general">>
                      [] OTHER                    -> <<>>)

\* query_transformer.py:105-277  the plan yielded as transformer_output.  A
\* parsed value that is no object raises AttributeError at line 204 and a
\* plan without the web_search_needed key raises KeyError at line 232; the
\* handler of line 254 turns both into the emergency fallback.
get_transformed_query(r) ==
    IF r.kind = "raise" \/ ~r.bound THEN EmergencyFallback(r)
    ELSE IF StrictParses(r) /\ r.syntax = "array" THEN EmergencyFallback(r)
    ELSE LET d == IF StrictParses(r) THEN StrictParsed(r)
                  ELSE RegexRecovered(r)
         IN  IF d.web_search_needed = "absent" THEN EmergencyFallback(r)
             ELSE NormalizedPlan(r, d)

InitPlanner ==
    /\ JobIdle
    /\ TextIdle
    /\ ScraperIdle
    /\ FirstDelivery
    /\ HtmlIdle
    /\ WorkerIdle
    /\ planner_response \in PlannerResponses
    /\ planner_plan = NoPlannerPlan

GetTransformedQuery ==
    /\ planner_response.kind # "none"
    /\ ~planner_plan.yielded
    /\ planner_plan' = get_transformed_query(planner_response)
    /\ UNCHANGED <<job_vars, text_vars, planner_response, scraper_vars, html_vars, worker_vars>>

NextPlanner == GetTransformedQuery

SpecPlanner == InitPlanner /\ [][NextPlanner]_vars


\* ------------------------------------------------- the scraper adapter alone
\* call_scraper_and_wait applied to one outcome of the scrape task it sends.

\* The url lists the pipeline hands to the callback: the first urls of
\* all_urls, at most max_urls_to_scrape of them (deep_search.py:1086).
ScraperUrlLists ==
    { SubSeq(<<"u1", "u2", "u3", "u4", "u5">>, 1, n) :
          n \in 1..max_urls_to_scrape }

InitScraper ==
    /\ JobIdle
    /\ TextIdle
    /\ PlannerIdle
    /\ \E urls \in ScraperUrlLists :
       \E result \in ScraperWireResults(urls) :
          scrape_outcome = [urls |-> urls, shape |-> result.shape,
                            inner |-> result.inner, items |-> result.items]
    /\ scraped_data = Returned("none", <<>>)
    /\ FirstDelivery
    /\ HtmlIdle
    /\ WorkerIdle

CallScraperAndWait ==
    /\ scrape_outcome.shape # "none"
    /\ scraped_data.type = "none"
    /\ scraped_data' = call_scraper_and_wait(scrape_outcome)
    /\ UNCHANGED <<job_vars, text_vars, planner_vars, scrape_outcome, html_vars, worker_vars>>

NextScraper == CallScraperAndWait

SpecScraper == InitScraper /\ [][NextScraper]_vars


\* ------------------------------------------------- the job and its transport
\* The job as deep_search_task runs it, the Redis client present or None and
\* its connection failing while the job runs.

InitTransport ==
    /\ pc = "queued"
    /\ use_multi_stage = TRUE
    /\ enable_scraping = TRUE
    /\ scraper_callback \in BOOLEAN
    /\ history_arg = <<>>
    /\ redis_client \in {"None", "up"}
    /\ Constructed
    /\ TextIdle
    /\ PlannerIdle
    /\ ScraperIdle
    /\ FirstDelivery
    /\ HtmlIdle
    /\ WorkerIdle

\* tasks.py:55-58  from here on redis_client.publish raises.  The connection
\* fails before the task starts or while the job waits for a search.
ConnectionLost ==
    /\ pc \in {"queued", "search"}
    /\ redis_client = "up"
    /\ redis_client' = "down"
    /\ UNCHANGED <<pc, inputs, generator_state, pipeline_locals, trace,
                   published, channel, task_locals, text_vars, planner_vars, scraper_vars, delivery_vars, html_vars, worker_vars>>

\* tasks.py:55  the client reconnects, once and while the job waits for a
\* search: a later redis_client.publish succeeds, and the updates published
\* in between stay lost.
ConnectionRestored ==
    /\ pc = "search"
    /\ redis_client = "down"
    /\ redis_client' = "restored"
    /\ UNCHANGED <<pc, inputs, generator_state, pipeline_locals, trace,
                   published, channel, task_locals, text_vars, planner_vars, scraper_vars, delivery_vars, html_vars, worker_vars>>

NextTransport ==
    \/ Next
    \/ ConnectionLost
    \/ ConnectionRestored

SpecTransport == InitTransport /\ [][NextTransport]_vars



\* ------------------------------------------- the task's message at the broker
\* The job with the broker of celery_app.py:13-25.  The task's message is
\* acknowledged late, so the broker delivers it again when the worker holding
\* it is lost before the acknowledgement; the executions of one job publish on
\* the same channel.
MaxDeliveries == 2

\* What an execution of the task left on the channel job:{id}: its terminal
\* update, or that it published progress updates only, or nothing.
LeftOnChannel(ch) ==
    IF ch = <<>> THEN "nothing"
    ELSE IF ch[Len(ch)].type \in {"complete", "error"} THEN ch[Len(ch)].type
    ELSE "progress"

InitDelivery ==
    /\ pc = "queued"
    /\ use_multi_stage = TRUE
    /\ enable_scraping = TRUE
    /\ scraper_callback \in BOOLEAN
    /\ history_arg = <<>>
    /\ redis_client = "up"
    /\ Constructed
    /\ TextIdle
    /\ PlannerIdle
    /\ ScraperIdle
    /\ FirstDelivery
    /\ HtmlIdle
    /\ WorkerIdle

\* celery_app.py:22, tasks.py:463, 487: the execution returned final_result or
\* re-raised from its handler; the worker then acknowledges the message (a
\* message of a failed task is acknowledged too), and the broker drops it.
\* The task requests no retry: nothing puts a message back on the queue.
Acknowledge ==
    /\ pc \in {"completed", "failed"}
    /\ message = "unacked"
    /\ message' = "acked"
    /\ UNCHANGED <<pc, inputs, generator_state, pipeline_locals, trace, published,
                   redis_client, channel, task_locals, text_vars, planner_vars,
                   scraper_vars, deliveries, earlier_runs, html_vars, worker_vars>>

\* celery_app.py:22, tasks.py:329-402: the worker is lost while the message
\* is unacknowledged, after the execution ended or was cut short; the broker
\* delivers the message again and deep_search_task starts anew, with a new
\* generator and new locals, for the same conversation_id and so on the same
\* channel.  The task looks up nothing about earlier executions of the job.
Redeliver ==
    /\ pc \in {"completed", "failed", "cancelled"}
    /\ message = "unacked"
    /\ deliveries < MaxDeliveries
    /\ deliveries' = deliveries + 1
    /\ earlier_runs' = Append(earlier_runs, LeftOnChannel(channel))
    /\ pc' = "queued"
    /\ conversation_history' = <<>>
    /\ current_markdown' = NoneText
    /\ plan' = NoPlan
    /\ search_queries' = <<>>
    /\ qi' = 0
    /\ all_urls' = <<>>
    /\ all_search_results' = EmptyDict
    /\ scraped_results' = <<>>
    /\ structured_data' = EmptyBag
    /\ extractor_outcome' = "none"
    /\ generate_calls' = <<>>
    /\ markdown' = NoneText
    /\ analysis_summary' = NoneText
    /\ trace' = <<>>
    /\ published' = <<>>
    /\ channel' = <<>>
    /\ final_sources' = <<>>
    /\ final_app' = NoneText
    /\ final_content' = <<>>
    /\ final_reasoning_steps' = <<>>
    /\ UNCHANGED <<inputs, redis_client, message, text_vars, planner_vars, scraper_vars,
                   html_vars, worker_vars>>

NextDelivery ==
    \/ Next
    \/ Acknowledge
    \/ Redeliver

SpecDelivery == InitDelivery /\ [][NextDelivery]_vars


\* ------------------------------------------------- cancellation of the run
\* The job whose coroutine can be cancelled while it awaits: CancelledError
\* is raised at the await the run is suspended on.
InitCancel ==
    /\ pc = "queued"
    /\ use_multi_stage = TRUE
    /\ enable_scraping = TRUE
    /\ scraper_callback \in BOOLEAN
    /\ history_arg = <<>>
    /\ redis_client = "up"
    /\ Constructed
    /\ TextIdle
    /\ PlannerIdle
    /\ ScraperIdle
    /\ FirstDelivery
    /\ HtmlIdle
    /\ WorkerIdle

\* The awaits of the pipeline whose handlers are `except Exception`
\* (deep_search.py:1060-1076, 1151-1172, 1200-1220, tasks.py:471):
\* CancelledError is no Exception, it leaves the pipeline, develop_report and
\* the task, and the handler of tasks.py:471 does not run.
CancelPropagates ==
    /\ pc \in {"planner_llm", "search", "scrape_urls", "generator_llm",
               "generator_llm_direct", "summary_llm"}
    /\ pc' = "cancelled"
    /\ UNCHANGED <<inputs, redis_client, text_vars, planner_vars, scraper_vars, delivery_vars, html_vars, worker_vars,
                   generator_state, pipeline_locals, trace, published,
                   channel, task_locals>>

\* deep_search.py:473-476, 1188-1190: CancelledError raised while the
\* extractor's LLM call is awaited is caught, extract_structured_data returns
\* {} and the pipeline goes on to _generate_markdown.
CancelDuringExtraction ==
    /\ pc = "extractor_llm"
    /\ extractor_outcome' = "cancelled"
    /\ structured_data' = EmptyBag
    /\ EnterGenerate(<<>>, "generator_llm", all_search_results,
                     scraped_results, EmptyBag)
    /\ UNCHANGED <<inputs, redis_client, text_vars, planner_vars, scraper_vars, delivery_vars, html_vars, worker_vars, current_markdown, plan, search_queries, qi, all_urls,
                   all_search_results, scraped_results, markdown, analysis_summary>>

NextCancel ==
    \/ Next
    \/ CancelPropagates
    \/ CancelDuringExtraction

SpecCancel == InitCancel /\ [][NextCancel]_vars


\* ------------------------------------------------ the HTML app generator alone
\* HTMLAppGenerator.process_request applied to one request, one action per
\* pass of its loop, for every way the LLM call of the pass ends.

\* How generate_json and the conversion end in one pass
\* (json_html_generator.py:985-1018, 784): a page structure; a fenced JSON
\* text that does not parse (JSONDecodeError); a structure without its
\* "structure" field (KeyError in convert); a text with no JSON in it
\* (ValueError); the API call raising or answering with no content.
LLMResponses == {"page", "syntax_error", "missing_field", "no_json", "raises"}

\* The generator before the request: new, after a request that succeeded,
\* after a request whose last structure lacked a field.
HtmlPriorStates ==
    { [current_json |-> "None", history |-> <<>>],
      [current_json |-> "page",
       history |-> <<[request |-> "create a page", json |-> "page"]>>],
      [current_json |-> "incomplete", history |-> <<>>] }

InitHtml ==
    /\ JobIdle
    /\ TextIdle
    /\ PlannerIdle
    /\ ScraperIdle
    /\ FirstDelivery
    /\ WorkerIdle
    /\ html_pc = "attempting"
    /\ max_attempts \in 1..DefaultMaxAttempts
    /\ user_request \in {"create a page", "update the page"}
    /\ \E prior \in HtmlPriorStates :
          /\ current_json = prior.current_json
          /\ json_before = prior.current_json
          /\ html_history = prior.history
    /\ attempts = 0
    /\ last_error = "None"
    /\ llm_attempts = 0
    /\ html_result = NoHtmlResult

\* json_html_generator.py:1348-1352 with 783-786  get_html: None without a
\* structure, the document of a structure that converts, and the KeyError of
\* convert for a structure that lacks a field convert reads.
get_html(json) ==
    CASE json = "None" -> "None"
      [] json = "page" -> "document"
      [] OTHER         -> "KeyError"

\* json_html_generator.py:1324-1332  what process_request returns once
\* attempts has reached max_attempts.
FailedAfter(n) == [success |-> FALSE, html |-> "None", attempts |-> n]

\* json_html_generator.py:1252-1332  one pass of the loop of process_request:
\* generate_json calls the LLM; a page is stored, converted and returned; an
\* exception counts one attempt, a JSONDecodeError or KeyError also rebinds
\* user_request to the feedback text, and the loop ends with the failure
\* result when attempts reaches max_attempts.
AttemptRequest ==
    /\ html_pc = "attempting"
    /\ attempts < max_attempts
    /\ llm_attempts' = llm_attempts + 1
    /\ \E r \in LLMResponses :
          IF r = "page"
          THEN /\ current_json' = "page"
               /\ html_history' = Append(html_history,
                                         [request |-> user_request, json |-> "page"])
               /\ html_result' = [success |-> TRUE, html |-> "document",
                                  attempts |-> attempts + 1]
               /\ html_pc' = "returned"
               /\ UNCHANGED <<user_request, attempts, last_error>>
          ELSE /\ current_json' = IF r = "missing_field" THEN "incomplete"
                                  ELSE current_json
               /\ user_request' = CASE r = "syntax_error"  -> "json error feedback"
                                    [] r = "missing_field" -> "missing field feedback"
                                    [] OTHER               -> user_request
               /\ attempts' = attempts + 1
               /\ last_error' = r
               /\ IF attempts + 1 >= max_attempts
                  THEN /\ html_result' = FailedAfter(attempts + 1)
                       /\ html_pc' = "returned"
                  ELSE UNCHANGED <<html_result, html_pc>>
               /\ UNCHANGED html_history
    /\ UNCHANGED <<job_vars, text_vars, planner_vars, scraper_vars, max_attempts,
                   json_before, worker_vars>>

NextHtml == AttemptRequest

SpecHtml == InitHtml /\ [][NextHtml]_vars


\* ----------------------------------------------- the readers of scrape items
\* The selections of successful scrapes, each applied to one list of items.
MaxItems == 2

\* A scrape item by its two fields that matter here: error (absent, an empty
\* string, a message) and best_chunk (empty or a text).
ItemKinds ==
    { [error |-> e, best_chunk |-> c] :
          e \in {"None", "", "Failed to scrape"}, c \in {"", "text"} }

\* Python's truth value of dict.get(field).
Truthy(v) == v \notin {"None", ""}

RECURSIVE ItemLists(_)
ItemLists(n) ==
    IF n = 0 THEN { <<>> }
    ELSE ItemLists(n - 1)
         \cup { Append(l, k) : l \in {x \in ItemLists(n - 1) : Len(x) = n - 1},
                               k \in ItemKinds }

\* deep_search.py:377, 907, 1121, 1161, 2801  `not s.get('error')`
WithoutError(items) == SelectSeq(items, LAMBDA s : ~Truthy(s.error))

\* scraper_core.py:766  `r.get('best_chunk')`
WithBestChunk(items) == SelectSeq(items, LAMBDA r : Truthy(r.best_chunk))

\* What each reader takes as the successful scrapes of a list.
SuccessfulFor(reader, items) ==
    IF reader = "statistics" THEN WithBestChunk(items) ELSE WithoutError(items)

InitItems ==
    /\ JobIdle
    /\ TextIdle
    /\ PlannerIdle
    /\ ScraperIdle
    /\ FirstDelivery
    /\ HtmlIdle
    /\ scrape_items \in ItemLists(MaxItems)
    /\ selected = [r \in Readers |-> NotRead]
    /\ DirectIdle
    /\ ChunkerIdle
    /\ TabsIdle
    /\ PoolIdle

\* deep_search.py:375-389, 907-916, 1120-1129, 2801 and scraper_core.py:766:
\* one reader goes through the list.
ReadItems ==
    \E reader \in Readers :
        /\ ~selected[reader].done
        /\ selected' = [selected EXCEPT ![reader] =
                           [done |-> TRUE, items |-> SuccessfulFor(reader, scrape_items)]]
        /\ UNCHANGED <<job_vars, text_vars, planner_vars, scraper_vars, html_vars,
                       scrape_items, direct_vars, chunker_vars, tabs_vars, pool_vars>>

NextItems == ReadItems

SpecItems == InitItems /\ [][NextItems]_vars

\* ------------------------------------------------ the direct scraper alone

\* One invocation of WebScraper.scrape_urls: the requested urls, the way the
\* request ends and the result list of the body.
InitDirect ==
    /\ JobIdle
    /\ TextIdle
    /\ PlannerIdle
    /\ ScraperIdle
    /\ FirstDelivery
    /\ HtmlIdle
    /\ ItemsIdle
    /\ ChunkerIdle
    /\ TabsIdle
    /\ PoolIdle
    /\ \E urls \in ScraperUrlLists :
       \E r \in DirectResponses, items \in ScrapeLists(urls) :
          scrape_request = [response |-> r, urls |-> urls, items |-> items]
    /\ scrape_events = NotInvoked

\* deep_search.py:41-296  the caller iterates the generator to its end.
ScrapeUrls ==
    /\ ~scrape_events.invoked
    /\ scrape_events' =
           [invoked |-> TRUE,
            events  |-> ScrapeUrlsEvents(scrape_request.response,
                                         scrape_request.urls,
                                         scrape_request.items)]
    /\ UNCHANGED <<job_vars, text_vars, planner_vars, scraper_vars, html_vars,
                   items_vars, scrape_request, chunker_vars, tabs_vars, pool_vars>>

NextDirect == ScrapeUrls

SpecDirect == InitDirect /\ [][NextDirect]_vars

\* ------------------------------------------- scrape_and_extract's chunker

\* The chunk_size and chunk_overlap arguments a call is given.
ChunkerArguments == [chunk_size : {200, 400}, overlap : {0, 50}]

\* Two calls of scrape_and_extract to be made in one process, each with its
\* arguments; the event loop runs one until it awaits and then the other.
InitChunker ==
    /\ JobIdle
    /\ TextIdle
    /\ PlannerIdle
    /\ ScraperIdle
    /\ FirstDelivery
    /\ HtmlIdle
    /\ ItemsIdle
    /\ DirectIdle
    /\ TabsIdle
    /\ PoolIdle
    /\ chunker = DefaultChunker
    /\ \E given \in [Calls -> ChunkerArguments] :
          chunk_calls = [c \in Calls |->
                            [pc |-> "not_called", given |-> given[c],
                             used |-> DefaultChunker]]

\* scraper_core.py:659-676  a call starts: it rebinds the global _chunker
\* from its arguments and awaits run_parallel_with_pool.
ScrapeAndExtractStarts(c) ==
    /\ chunk_calls[c].pc = "not_called"
    /\ chunker' = chunk_calls[c].given
    /\ chunk_calls' = [chunk_calls EXCEPT ![c].pc = "scraping"]
    /\ UNCHANGED <<job_vars, text_vars, planner_vars, scraper_vars, html_vars,
                   items_vars, direct_vars, tabs_vars, pool_vars>>

\* scraper_core.py:683-684  run_parallel_with_pool raises: the call raises.
ScrapingFails(c) ==
    /\ chunk_calls[c].pc = "scraping"
    /\ chunk_calls' = [chunk_calls EXCEPT ![c].pc = "raised"]
    /\ UNCHANGED <<job_vars, text_vars, planner_vars, scraper_vars, html_vars,
                   items_vars, direct_vars, tabs_vars, pool_vars, chunker>>

\* scraper_core.py:693-729  the await returns and the call chunks the text of
\* every page with the global _chunker, without another await.
ChunkPages(c) ==
    /\ chunk_calls[c].pc = "scraping"
    /\ chunk_calls' = [chunk_calls EXCEPT ![c].pc = "chunked",
                                          ![c].used = chunker]
    /\ UNCHANGED <<job_vars, text_vars, planner_vars, scraper_vars, html_vars,
                   items_vars, direct_vars, tabs_vars, pool_vars, chunker>>

NextChunker ==
    \E c \in Calls :
        \/ ScrapeAndExtractStarts(c)
        \/ ScrapingFails(c)
        \/ ChunkPages(c)

SpecChunker == InitChunker /\ [][NextChunker]_vars

\* ------------------------------------------------- the tabs of one browser

\* Most urls given to one call of run_parallel_with_pool.
MaxUrls == 12

\* One worker task goes from one position to the next.  The tasks run the
\* same code on the same browser and semaphore and differ by their url only,
\* so the state counts them by position.
Move(workers, from, to) ==
    [workers EXCEPT ![from] = @ - 1, ![to] = @ + 1]

\* scraper_core.py:491-500  run_parallel_with_pool took one browser of the
\* pool with its semaphore and created one worker_with_tab task per url.
InitTabs ==
    /\ JobIdle
    /\ TextIdle
    /\ PlannerIdle
    /\ ScraperIdle
    /\ FirstDelivery
    /\ HtmlIdle
    /\ ItemsIdle
    /\ DirectIdle
    /\ ChunkerIdle
    /\ PoolIdle
    /\ semaphore = max_tabs_per_browser
    /\ open_pages = 0
    /\ \E n \in 1..MaxUrls :
          tab_workers = [NoWorkers EXCEPT !["created"] = n]

\* scraper_core.py:438  async with semaphore: a task enters when a slot is
\* free and waits otherwise.
AcquireSemaphore ==
    /\ tab_workers["created"] > 0
    /\ semaphore > 0
    /\ semaphore' = semaphore - 1
    /\ tab_workers' = Move(tab_workers, "created", "new_page")
    /\ UNCHANGED <<job_vars, text_vars, planner_vars, scraper_vars, html_vars,
                   items_vars, direct_vars, chunker_vars, pool_vars, open_pages>>

\* scraper_core.py:439-458  browser.new_page returns the page; the failures
\* of the header and viewport calls are swallowed and scrape_one starts.
NewPageReturns ==
    /\ tab_workers["new_page"] > 0
    /\ open_pages' = open_pages + 1
    /\ tab_workers' = Move(tab_workers, "new_page", "scraping")
    /\ UNCHANGED <<job_vars, text_vars, planner_vars, scraper_vars, html_vars,
                   items_vars, direct_vars, chunker_vars, pool_vars, semaphore>>

\* scraper_core.py:438-439  browser.new_page raises: no page was opened, the
\* exception leaves the async with block, which releases the slot.
NewPageRaises ==
    /\ tab_workers["new_page"] > 0
    /\ semaphore' = semaphore + 1
    /\ tab_workers' = Move(tab_workers, "new_page", "raised")
    /\ UNCHANGED <<job_vars, text_vars, planner_vars, scraper_vars, html_vars,
                   items_vars, direct_vars, chunker_vars, pool_vars, open_pages>>

\* scraper_core.py:460-464  scrape_one returns; the finally clause awaits
\* page.close.
ScrapeOneReturns ==
    /\ tab_workers["scraping"] > 0
    /\ tab_workers' = Move(tab_workers, "scraping", "closing_returns")
    /\ UNCHANGED <<job_vars, text_vars, planner_vars, scraper_vars, html_vars,
                   items_vars, direct_vars, chunker_vars, pool_vars, semaphore,
                   open_pages>>

ScrapeOneRaisesWithoutFinally ==
    /\ tab_workers["scraping"] > 0
    /\ semaphore' = semaphore + 1
    /\ tab_workers' = Move(tab_workers, "scraping", "raised")
    /\ UNCHANGED <<job_vars, text_vars, planner_vars, scraper_vars, html_vars,
                   items_vars, direct_vars, chunker_vars, pool_vars, open_pages>>

\* scraper_core.py:460-464  scrape_one raises; the finally clause awaits
\* page.close before the exception goes on.
ScrapeOneRaises ==
    /\ tab_workers["scraping"] > 0
    /\ tab_workers' = Move(tab_workers, "scraping", "closing_raises")
    /\ UNCHANGED <<job_vars, text_vars, planner_vars, scraper_vars, html_vars,
                   items_vars, direct_vars, chunker_vars, pool_vars, semaphore,
                   open_pages>>

\* scraper_core.py:463-468  page.close ends, an exception of it swallowed:
\* the page is closed, the task leaves the async with block, which releases
\* the slot, and finishes with its result or with scrape_one's exception.
PageCloses ==
    \E end \in {"returned", "raised"} :
        LET from == IF end = "returned" THEN "closing_returns"
                    ELSE "closing_raises"
        IN  /\ tab_workers[from] > 0
            /\ open_pages' = open_pages - 1
            /\ semaphore' = semaphore + 1
            /\ tab_workers' = Move(tab_workers, from, end)
            /\ UNCHANGED <<job_vars, text_vars, planner_vars, scraper_vars,
                           html_vars, items_vars, direct_vars, chunker_vars,
                           pool_vars>>

NextTabs ==
    \/ AcquireSemaphore
    \/ NewPageReturns
    \/ NewPageRaises
    \/ ScrapeOneReturns
    \/ ScrapeOneRaises
    \/ PageCloses

SpecTabs == InitTabs /\ [][NextTabs]_vars

\* ------------------------------------------ the browsers of one process

\* Most calls (of scrape_and_extract, of cleanup_browser_pool) followed in
\* one worker process.
MaxCalls == 4

InitPool ==
    /\ JobIdle
    /\ TextIdle
    /\ PlannerIdle
    /\ ScraperIdle
    /\ FirstDelivery
    /\ HtmlIdle
    /\ ItemsIdle
    /\ DirectIdle
    /\ ChunkerIdle
    /\ TabsIdle
    /\ PoolIdle

\* No call is under way and the process makes another.
MayCall ==
    /\ pool_call.pc = "idle"
    /\ Len(pool_calls) < MaxCalls

\* scraper_core.py:676-682 with 479-480  scrape_and_extract with no urls:
\* run_parallel_with_pool returns before it looks at the pool.
CallWithNoUrls ==
    /\ MayCall
    /\ pool_calls' = Append(pool_calls, "no_urls")
    /\ UNCHANGED <<job_vars, text_vars, planner_vars, scraper_vars, html_vars,
                   items_vars, direct_vars, chunker_vars, tabs_vars,
                   browser_pool, live_browsers, pool_call>>

\* scraper_core.py:676-682 with 486-491  scrape_and_extract with urls hands
\* the global _browser_pool to run_parallel_with_pool, which uses it when it
\* is an initialized pool and otherwise makes a pool of its own, bound to
\* its local name only.
CallStarts ==
    /\ MayCall
    /\ pool_call' = IF browser_pool = "None"
                    THEN [pc |-> "initializing", launched |-> 0]
                    ELSE [pc |-> "scraping", launched |-> 0]
    /\ UNCHANGED <<job_vars, text_vars, planner_vars, scraper_vars, html_vars,
                   items_vars, direct_vars, chunker_vars, tabs_vars,
                   browser_pool, live_browsers, pool_calls>>

\* scraper_core.py:42-44  BrowserPool.initialize launches one more browser.
LaunchBrowser ==
    /\ pool_call.pc = "initializing"
    /\ pool_call.launched < pool_size
    /\ live_browsers' = live_browsers + 1
    /\ pool_call' = [pool_call EXCEPT !.launched = @ + 1]
    /\ UNCHANGED <<job_vars, text_vars, planner_vars, scraper_vars, html_vars,
                   items_vars, direct_vars, chunker_vars, tabs_vars,
                   browser_pool, pool_calls>>

\* scraper_core.py:43 with 683-684  a launch raises: initialize and the call
\* raise, the browsers launched so far stay.
LaunchRaises ==
    /\ pool_call.pc = "initializing"
    /\ pool_call.launched < pool_size
    /\ pool_call' = NoPoolCall
    /\ pool_calls' = Append(pool_calls, "raised")
    /\ UNCHANGED <<job_vars, text_vars, planner_vars, scraper_vars, html_vars,
                   items_vars, direct_vars, chunker_vars, tabs_vars,
                   browser_pool, live_browsers>>

\* scraper_core.py:48, 491-512  the pool is ready and the urls are scraped
\* in one of its browsers.
PoolReady ==
    /\ pool_call.pc = "initializing"
    /\ pool_call.launched = pool_size
    /\ pool_call' = [pool_call EXCEPT !.pc = "scraping"]
    /\ UNCHANGED <<job_vars, text_vars, planner_vars, scraper_vars, html_vars,
                   items_vars, direct_vars, chunker_vars, tabs_vars,
                   browser_pool, live_browsers, pool_calls>>

\* scraper_core.py:512, 686-787  run_parallel_with_pool returns, its pool
\* goes out of scope unclosed, and scrape_and_extract returns its results.
CallReturns ==
    /\ pool_call.pc = "scraping"
    /\ pool_call' = NoPoolCall
    /\ pool_calls' = Append(pool_calls, "returned")
    /\ UNCHANGED <<job_vars, text_vars, planner_vars, scraper_vars, html_vars,
                   items_vars, direct_vars, chunker_vars, tabs_vars,
                   browser_pool, live_browsers>>

\* scraper_core.py:790-795 with 59-75  cleanup_browser_pool closes the
\* browsers of the global pool, when there is one.
CleanupBrowserPool ==
    /\ MayCall
    /\ IF browser_pool = "None"
       THEN UNCHANGED <<browser_pool, live_browsers>>
       ELSE /\ live_browsers' = live_browsers - pool_size
            /\ browser_pool' = "None"
    /\ pool_calls' = Append(pool_calls, "cleanup")
    /\ UNCHANGED <<job_vars, text_vars, planner_vars, scraper_vars, html_vars,
                   items_vars, direct_vars, chunker_vars, tabs_vars, pool_call>>

NextPool ==
    \/ CallWithNoUrls
    \/ CallStarts
    \/ LaunchBrowser
    \/ LaunchRaises
    \/ PoolReady
    \/ CallReturns
    \/ CleanupBrowserPool

SpecPool == InitPool /\ [][NextPool]_vars

\* =================================================================== claims

\* The calls of one kind the job has issued, in order.
CallsOf(t) == SelectSeq(trace, LAMBDA e : e.kind = "call" /\ e.type = t)

\* The sources events the consumer has received, in order.
SourcesEvents == SelectSeq(stream, LAMBDA e : e.type = "sources")

\* The queries a sequence of calls or events carries.
QueriesOf(es) == [i \in 1..Len(es) |-> es[i].content]

NoDuplicates(s) == \A i, j \in 1..Len(s) : s[i] = s[j] => i = j

PlanReceived == plan.note # "none"

\* ------------------------------------------------------------------------ C1
\* C1 as stated: when the task has ended, completed or failed, the last
\* event on the channel job:{id} is a terminal event (complete, or error
\* with fatal=true) and no other event on the channel is terminal.
C1_ChannelEndsWithTerminal ==
    pc \in {"completed", "failed"} =>
        /\ channel # <<>>
        /\ IsTerminal(channel[Len(channel)])
        /\ \A i \in 1..(Len(channel) - 1) : ~IsTerminal(channel[i])

\* C1 amended: the last update a task that completed or failed hands to
\* publish_progress is a terminal update, the only one it hands over, and a
\* running task has handed over none; on the channel a terminal event is
\* never followed by another event, and it is there whenever the transport
\* took the task's publishes.
C1_TerminalUpdateIsLast ==
    /\ \A i \in 1..Len(published) :
          IsTerminal(published[i]) => i = Len(published)
    /\ pc \in {"completed", "failed"} =>
          /\ published # <<>>
          /\ IsTerminal(published[Len(published)])
    /\ pc \in Running \cup {"queued"} =>
          \A i \in 1..Len(published) : ~IsTerminal(published[i])
    /\ \A i \in 1..Len(channel) :
          IsTerminal(channel[i]) => i = Len(channel)
    /\ (pc \in {"completed", "failed"} /\ redis_client = "up") =>
          /\ channel # <<>>
          /\ channel[Len(channel)] = published[Len(published)]

\* A job searched, published its sources and completed, and the channel
\* carries the complete event last.
C1_Witness ==
    /\ pc = "completed"
    /\ channel # <<>>
    /\ channel[Len(channel)].type = "complete"
    /\ \E i \in 1..(Len(channel) - 1) : channel[i].step = "Sources Found"

\* ------------------------------------------------------------------------ C2
\* C2: every url of a sources event is in the job's global url collection,
\* no url occurs twice in one sources event, and no url occurs in two
\* sources events of the job.
C2_SourcesAreDeduplicated ==
    /\ NoDuplicates(all_urls)
    /\ \A i \in 1..Len(SourcesEvents) :
          /\ Range(SourcesEvents[i].urls) \subseteq Range(all_urls)
          /\ NoDuplicates(SourcesEvents[i].urls)
          /\ \A j \in 1..Len(SourcesEvents) :
                i # j => Range(SourcesEvents[i].urls)
                           \cap Range(SourcesEvents[j].urls) = {}

\* Two queries returned {u1,u2} and then {u2,u3}: the events carry {u1,u2}
\* and then {u3}.
C2_Witness ==
    /\ Len(SourcesEvents) >= 2
    /\ SourcesEvents[1].urls = <<"u1", "u2">>
    /\ SourcesEvents[2].urls = <<"u3">>
    /\ InSeq("u2", all_search_results[SourcesEvents[2].content])

\* ------------------------------------------------------------------------ C3
\* C3: when the plan says no web search is needed, no sources event is
\* emitted, neither the search provider nor a scraper is called, and the
\* generator is called with empty search and scrape results.
C3_NoResearchWhenNotNeeded ==
    (PlanReceived /\ ~plan.web_search_needed) =>
        /\ SourcesEvents = <<>>
        /\ CallsOf("search") = <<>>
        /\ CallsOf("scraper_callback") = <<>>
        /\ CallsOf("scrape_urls") = <<>>
        /\ scraped_results = <<>>
        /\ \A i \in 1..Len(generate_calls) :
              /\ generate_calls[i].scraped_results = <<>>
              /\ generate_calls[i].search_results = EmptyDict

\* A plan that needs no web search but lists queries was generated from and
\* the job completed.
C3_Witness ==
    /\ pc = "completed"
    /\ ~plan.web_search_needed
    /\ Len(plan.search_queries) >= 2
    /\ Len(generate_calls) = 1

\* ------------------------------------------------------------------------ C4
\* C4: with scraping disabled no scraper is invoked (neither the callback nor
\* the direct scraper), and the scraped results are empty when the extractor,
\* the generator and the summarizer run.
C4_NoScrapingWhenDisabled ==
    ~enable_scraping =>
        /\ CallsOf("scraper_callback") = <<>>
        /\ CallsOf("scrape_urls") = <<>>
        /\ scraped_results = <<>>
        /\ \A i \in 1..Len(generate_calls) :
              generate_calls[i].scraped_results = <<>>

\* Scraping was disabled, the searches found urls, and the job completed
\* through extraction, generation and analysis.
C4_Witness ==
    /\ ~enable_scraping
    /\ all_urls # <<>>
    /\ pc = "completed"
    /\ CallsOf("summary_llm") # <<>>

\* ------------------------------------------------------------------------ C5
\* C5: a job emits at most max_search_queries sources events and calls the
\* search provider at most max_search_queries times, however many queries
\* the plan lists.
C5_SearchesAreCapped ==
    /\ Len(SourcesEvents) <= max_search_queries
    /\ Len(CallsOf("search")) <= max_search_queries

\* A plan with more queries than the cap was searched to the end.
C5_Witness ==
    /\ Len(plan.search_queries) > max_search_queries
    /\ plan.web_search_needed
    /\ pc = "completed"
    /\ Len(CallsOf("search")) = Len(search_queries)
    /\ Len(SourcesEvents) = Len(search_queries)

\* ------------------------------------------------------------------------ C6
\* C6: for a plan of n queries that needs web search, the executor issues
\* exactly min(n, max_search_queries) searches, for the first queries of the
\* plan in plan order, the first search being the first planned query, and
\* emits one sources event per search.
C6_SearchesFollowThePlan ==
    (PlanReceived /\ plan.web_search_needed
       /\ pc \in {"extractor_llm", "generator_llm", "summary_llm", "completed"}) =>
        /\ QueriesOf(CallsOf("search"))
              = Take(plan.search_queries, max_search_queries)
        /\ QueriesOf(SourcesEvents)
              = Take(plan.search_queries, max_search_queries)

StartsWithHtmlMarker(t) ==
    t # <<>> /\ LowerAtom(t[1]) \in {"<!doctype", "<html"}

C9_MarkdownBodyStartsWithHeading ==
    (gen_mode = "_generate_markdown" /\ artifact_body # NoneText) =>
        StartsWith(artifact_body, <<"#">>)

\* ----------------------------------------------------------------------- C10
\* A bare year of 2020..2024 in a query; a year inside a range of years is
\* part of the word that writes the range.
HasBareStaleYear(q) == \E k \in 1..Len(q) : q[k] = "2023"

\* C10: no query of the plan the planner yields holds a bare year of
\* 2020..2024, years inside a multi-year range excepted.
C10_PlanQueriesAreYearScrubbed ==
    planner_plan.yielded =>
        \A i \in 1..Len(planner_plan.search_queries) :
            ~HasBareStaleYear(planner_plan.search_queries[i])

\* ----------------------------------------------------------------------- C11
\* The LLM echoes a well-formed plan: a bare JSON object with boolean flags,
\* a list of queries and a list of data types.
EchoesWellFormedPlan(r) ==
    /\ r.bound /\ r.kind = "text" /\ r.fence = "none" /\ r.syntax = "object"
    /\ r.web_search_needed \in {"true", "false"}
    /\ r.shape = "list"
    /\ r.data_extraction_needed \in {"true", "false"}
    /\ r.data_types = "list"

\* The queries of a plan that are neither empty nor whitespace, in order.
NonBlankQueries(qs) == SelectSeq(qs, LAMBDA q : q # <<>> /\ q # <<" ">>)

\* C11: when the LLM echoes a well-formed plan P, the planner yields P
\* normalised: the same web_search_needed, data_extraction_needed and
\* data_types, and the non-blank queries of P as P writes them (the user's
\* query when P needs web search and has none).
C11_PlanRoundTrip ==
    (planner_plan.yielded /\ EchoesWellFormedPlan(planner_response)) =>
        LET p  == planner_response
            w  == p.web_search_needed = "true"
            qs == NonBlankQueries(p.search_queries)
        IN  /\ planner_plan.web_search_needed = w
            /\ planner_plan.search_queries
                  = IF w /\ qs = <<>> THEN <<UserQueryText>> ELSE qs
            /\ planner_plan.data_extraction_needed
                  = (p.data_extraction_needed = "true")
            /\ planner_plan.data_types = <<"statistics">>

\* ----------------------------------------------------------------------- C12
\* What a consumer collects from a sequence of updates: the url list of each
\* sources update, in order.
IsSourcesUpdate(u) == u.type = "reasoning" /\ u.step = "Sources Found"

CollectedSources(us) ==
    LET ss == SelectSeq(us, IsSourcesUpdate)
    IN  [i \in 1..Len(ss) |-> ss[i].sources]

RECURSIVE IsSubsequence(_, _)
IsSubsequence(a, b) ==
    IF a = <<>> THEN TRUE
    ELSE IF b = <<>> THEN FALSE
    ELSE IF Head(a) = Head(b) THEN IsSubsequence(Tail(a), Tail(b))
    ELSE IsSubsequence(a, Tail(b))

NothingRecovered(r) ==
    \/ r.kind = "raise"
    \/ /\ ~StrictParses(r)
       /\ r.web_search_needed = "absent"
       /\ r.shape = "absent"

\* C13: the plan the planner yields when nothing could be parsed or
\* recovered from the LLM outcome is web_search_needed = true with
\* search_queries = [user_query], the user's query string.
C13_FallbackSearchesTheUserQuery ==
    (planner_plan.yielded /\ NothingRecovered(planner_response)) =>
        /\ planner_plan.web_search_needed
        /\ planner_plan.search_queries = <<UserQueryText>>

\* ----------------------------------------------------------------------- C14
\* C14: every plan the planner yields with web_search_needed false has an
\* empty search_queries, whatever the LLM responded.
C14_NoQueriesWithoutWebSearch ==
    (planner_plan.yielded /\ ~planner_plan.web_search_needed) =>
        planner_plan.search_queries = <<>>

\* ----------------------------------------------------------------------- C15
\* The response text parsed as a JSON object that has the key
\* web_search_needed.
ParsedAnObject(r) ==
    /\ r.bound /\ r.kind = "text" /\ r.syntax = "object"
    /\ StrictParses(r)
    /\ r.web_search_needed # "absent"

\* C15: for every parsed LLM object the plan has true for a flag given as
\* the string "true", the singleton list of a search_queries given as a
\* single string, and of a list of queries the non-blank ones in order.
C15_PlanIsNormalized ==
    (planner_plan.yielded /\ ParsedAnObject(planner_response)) =>
        LET d    == StrictParsed(planner_response)
            kept == NonBlankQueries(d.search_queries)
        IN  /\ d.web_search_needed = "str_true" =>
                  planner_plan.web_search_needed
            /\ d.data_extraction_needed = "str_true" =>
                  planner_plan.data_extraction_needed
            /\ (d.shape \in {"scalar", "list"} /\ kept # <<>>) =>
                  planner_plan.search_queries = kept

\* ----------------------------------------------------------------------- C16
\* One of the three permitted result shapes: {data: {results: [...]}},
\* {results: [...]} or a bare list.
PermittedShape(r) == r.shape \in {"data", "results", "list"} /\ r.inner = "list"

\* C16: call_scraper_and_wait returns the inner list of a result of one of
\* the three permitted shapes, and the empty list for every other outcome:
\* an enqueue failure, a time-out, a task error, an unknown or malformed
\* shape.
C16_AdapterReturnsInnerListOrEmpty ==
    scraped_data.type # "none" =>
        scraped_data = Returned("list",
                                IF PermittedShape(scrape_outcome)
                                THEN scrape_outcome.items ELSE <<>>)

\* ----------------------------------------------------------------------- C17
IsScrapeCall(e) ==
    e.kind = "call" /\ e.type \in {"scraper_callback", "scrape_urls"}

IsCall(e, t) == e.kind = "call" /\ e.type = t

\* No item of the scraped results is a successful scrape.
NoSuccessfulScrape(items) == \A i \in 1..Len(items) : items[i].error

\* C17: a failure of scraping does not fail the run.  A failed task never
\* stopped at the scraper callback; once a scraper call has ended, whatever
\* it gave, the extractor call follows it; the generator is called with the
\* scraped results as they are; and a run that completes ends with the
\* complete update.
C17_ScrapingFailureIsNotFatal ==
    /\ (pc = "failed" /\ trace # <<>>) =>
          ~IsCall(trace[Len(trace)], "scraper_callback")
    /\ \A i \in 1..(Len(trace) - 1) :
          IsScrapeCall(trace[i]) =>
              \E j \in (i + 1)..Len(trace) : IsCall(trace[j], "extractor_llm")
    /\ (CallsOf("extractor_llm") # <<>> /\ generate_calls # <<>>) =>
          generate_calls[Len(generate_calls)].scraped_results = scraped_results
    /\ pc = "completed" =>
          /\ published # <<>>
          /\ published[Len(published)].type = "complete"

\* The scraper callback gave no successful scrape, and the run went through
\* extraction, generation and analysis and published the complete update.
C17_Witness ==
    /\ pc = "completed"
    /\ CallsOf("scraper_callback") # <<>>
    /\ NoSuccessfulScrape(scraped_results)
    /\ CallsOf("extractor_llm") # <<>>
    /\ CallsOf("generator_llm") # <<>>
    /\ CallsOf("summary_llm") # <<>>
    /\ generate_calls[Len(generate_calls)].scraped_results = scraped_results
    /\ published[Len(published)].type = "complete"

\* ----------------------------------------------------------------------- C18
\* C18: once the extractor's LLM call has raised, exceeded its deadline or
\* given a text that is not parsed, the data bag is the empty object; the
\* generator's LLM call follows unless entering the generator failed on a
\* None history, and the generator was handed the empty bag with the search
\* results and the scraped results as they stand; a run that completes has
\* published the complete update.
C18_ExtractorFailureGivesEmptyBag ==
    extractor_outcome # "none" =>
        /\ structured_data = EmptyBag
        /\ CallsOf("generator_llm") = <<>> =>
              (pc = "failed" /\ IsNone(history_arg))
        /\ CallsOf("generator_llm") # <<>> =>
              LET call == generate_calls[Len(generate_calls)]
              IN  /\ call.structured_data = EmptyBag
                  /\ call.search_results = all_search_results
                  /\ call.scraped_results = scraped_results
        /\ pc = "completed" =>
              published[Len(published)].type = "complete"

\* The extractor's call exceeded its deadline after urls were scraped, and
\* the run generated from those scrapes and completed.
C18_Witness ==
    /\ extractor_outcome = "deadline"
    /\ pc = "completed"
    /\ scraped_results # <<>>
    /\ ~scraped_results[Len(scraped_results)].error
    /\ generate_calls[Len(generate_calls)].scraped_results = scraped_results
    /\ generate_calls[Len(generate_calls)].structured_data = EmptyBag
    /\ published[Len(published)].type = "complete"

\* ----------------------------------------------------------------------- C19
\* The events of one type the consumer has received, in order.
EventsOf(t) == SelectSeq(stream, LAMBDA e : e.type = t)

\* C19: a run that completes on a plan with web_search_needed false or with
\* no query has called neither the search provider nor a scraper nor the
\* extractor, has generated once from empty search, scrape and data inputs,
\* has then run the analysis, has emitted the artifact event and after it an
\* analysis_summary event, and its complete update has empty sources.
C19_DirectRunGeneratesAndAnalyses ==
    (pc = "completed" /\ PlanReceived
       /\ (~plan.web_search_needed \/ plan.search_queries = <<>>)) =>
        /\ CallsOf("search") = <<>>
        /\ CallsOf("scraper_callback") = <<>>
        /\ CallsOf("scrape_urls") = <<>>
        /\ CallsOf("extractor_llm") = <<>>
        /\ Len(generate_calls) = 1
        /\ generate_calls[1].search_results = EmptyDict
        /\ generate_calls[1].scraped_results = <<>>
        /\ generate_calls[1].structured_data = EmptyBag
        /\ CallsOf("summary_llm") # <<>>
        /\ EventsOf("markdown") # <<>>
        /\ EventsOf("analysis_summary") # <<>>
        /\ published[Len(published)].type = "complete"
        /\ published[Len(published)].sources = <<>>

\* ----------------------------------------------------------------------- C20
\* The place of a call or an event in the order of the stages: the planner
\* call, the search calls and sources events, the scrape call, the extractor
\* call, the generator call, the summarizer call, the artifact event, the
\* analysis_summary event; 0 for the reasoning, error and done events.
StageRank(e) ==
    IF e.kind = "call"
    THEN CASE e.type = "planner_llm"   -> 1
           [] e.type = "search"        -> 2
           [] e.type \in {"scraper_callback", "scrape_urls"} -> 3
           [] e.type = "extractor_llm" -> 4
           [] e.type = "generator_llm" -> 5
           [] e.type = "summary_llm"   -> 6
           [] OTHER                    -> 0
    ELSE CASE e.type = "sources"          -> 2
           [] e.type \in {"html", "markdown"} -> 7
           [] e.type = "analysis_summary" -> 8
           [] OTHER                       -> 0

\* The ranks of the calls and events of the trace that belong to a stage.
StageRanks ==
    SelectSeq([i \in 1..Len(trace) |-> StageRank(trace[i])],
              LAMBDA r : r # 0)

\* C20: in one run every search call and sources event precedes the scrape
\* call, which precedes the extractor call, which precedes the generator
\* call and the artifact event, which precede the analysis_summary event;
\* the summarizer is called between the generator call and the artifact
\* event; there is one scrape call, one extractor call and one generator
\* call at most; and the complete update is published after all of them, as
\* the last update.
C20_StagesRunInOrder ==
    /\ LET ranks == StageRanks
       IN  \A k \in 1..(Len(ranks) - 1) :
              /\ ranks[k] <= ranks[k + 1]
              /\ ranks[k] > 2 => ranks[k] < ranks[k + 1]
    /\ \A i \in 1..Len(published) :
          published[i].type = "complete" =>
              /\ i = Len(published)
              /\ pc = "completed"
              /\ EventsOf("markdown") # <<>>
              /\ stream[Len(stream)].type = "done"

\* A run searched twice, scraped, extracted, generated, analysed and
\* completed.
C20_Witness ==
    /\ pc = "completed"
    /\ Len(CallsOf("search")) >= 2
    /\ Len(SourcesEvents) >= 2
    /\ Len(CallsOf("scraper_callback")) + Len(CallsOf("scrape_urls")) = 1
    /\ Len(CallsOf("extractor_llm")) = 1
    /\ Len(CallsOf("generator_llm")) = 1
    /\ Len(CallsOf("summary_llm")) = 1
    /\ EventsOf("markdown") # <<>>
    /\ EventsOf("analysis_summary") # <<>>
    /\ published[Len(published)].type = "complete"

\* ----------------------------------------------------------------------- C21
\* The position in the trace of the last call before position j, 0 if none.
RECURSIVE LastCallBefore(_)
LastCallBefore(j) ==
    IF j <= 1 THEN 0
    ELSE IF trace[j - 1].kind = "call" THEN j - 1
    ELSE LastCallBefore(j - 1)

\* The call at position j of the trace is the external call of a stage the
\* run enters: any call but a search that follows another search.
EntersStage(j) ==
    /\ trace[j].kind = "call"
    /\ ~(/\ trace[j].type = "search"
         /\ LastCallBefore(j) # 0
         /\ trace[LastCallBefore(j)].type = "search")

\* C21: the external call of every stage a run enters (planner, first
\* search, scraper, extractor, generator, summarizer) comes after a
\* reasoning event emitted since the call of the stage before.
C21_ReasoningBeforeEachStageCall ==
    \A j \in 1..Len(trace) :
        EntersStage(j) =>
            \E i \in (LastCallBefore(j) + 1)..(j - 1) :
                trace[i].kind = "yield" /\ trace[i].type = "reasoning"


\* ----------------------------------------------------------------------- C22
\* C22: an execution of deep_search_task that ends in an uncaught failure is
\* followed by a second execution: the message of a task that failed for the
\* first time is never acknowledged and dropped.
C22_FailedTaskIsExecutedAgain ==
    (pc = "failed" /\ message = "acked") => InSeq("error", earlier_runs)

\* ----------------------------------------------------------------------- C23
\* The error updates on the channel job:{id}: those the earlier executions of
\* the task ended with, and those of the current execution.
ErrorsOnChannel ==
    Len(SelectSeq(earlier_runs, LAMBDA r : r = "error"))
        + Len(SelectSeq(channel, LAMBDA u : u.type = "error"))

\* C23: at most one error update is published per job, and a fatal error
\* update is the last update on the channel job:{id}, whichever execution of
\* the task published it.
C23_NothingAfterFatalError ==
    /\ ErrorsOnChannel <= 1
    /\ InSeq("error", earlier_runs) => channel = <<>>
    /\ \A i \in 1..Len(channel) :
           (channel[i].type = "error" /\ channel[i].fatal) => i = Len(channel)

\* ----------------------------------------------------------------------- C24
\* C24: once a cancel signal has reached the run at one of its suspension
\* points, no complete update and no fatal error update is published.
C24_CancelledRunPublishesNoTerminal ==
    (pc = "cancelled" \/ extractor_outcome = "cancelled") =>
        \A i \in 1..Len(published) :
            published[i].type # "complete" /\ published[i].type # "error"

\* ----------------------------------------------------------------------- C25
\* The steps of the reasoning updates among the updates us, in order.
RECURSIVE StepsOf(_)
StepsOf(us) ==
    IF us = <<>> THEN <<>>
    ELSE (IF us[1].type = "reasoning" THEN <<us[1].step>> ELSE <<>>)
         \o StepsOf(Tail(us))

\* C25: the complete payload of a run carries in reasoning_steps the steps of
\* the reasoning updates the run published, in order, and in app the body of
\* the artifact event the generator yielded.
C25_CompleteCarriesStepsAndArtifact ==
    pc = "completed" =>
        LET final_result == published[Len(published)]
            artifacts    == EventsOf("markdown")
        IN  /\ final_result.type = "complete"
            /\ final_result.reasoning_steps
                   = StepsOf(SubSeq(published, 1, Len(published) - 1))
            /\ artifacts # <<>>
            /\ final_result.app = artifacts[Len(artifacts)].content

\* ----------------------------------------------------------------------- C26
\* The calls of a scraper the job has issued, in order.
ScrapeCalls == SelectSeq(trace, LAMBDA e : IsScrapeCall(e))

\* C26: the scraper is called at most once in a run, with the first
\* max_urls_to_scrape urls of the job's deduplicated url list, in discovery
\* order, and with the first query of the plan as primary query.
C26_ScraperCallArguments ==
    /\ Len(ScrapeCalls) <= 1
    /\ \A i \in 1..Len(ScrapeCalls) :
           /\ ScrapeCalls[i].urls = Take(all_urls, max_urls_to_scrape)
           /\ ScrapeCalls[i].content = plan.search_queries[1]

\* ----------------------------------------------------------------------- C27
\* The task's locals before its loop (tasks.py:389-393).
FreshTaskState ==
    [published |-> <<>>, final_sources |-> <<>>,
     final_app |-> NoneText, final_content |-> <<>>]

CompletesOnChannel ==
    Len(SelectSeq(earlier_runs, LAMBDA r : r = "complete"))
        + Len(SelectSeq(channel, LAMBDA u : u.type = "complete"))

\* C28: however often the broker delivers the task of a job, a subscriber of
\* job:{id} sees at most one complete update.  (The executions of the model
\* follow one another, so their updates are never interleaved.)
C28_AtMostOneComplete ==
    CompletesOnChannel <= 1

\* ----------------------------------------------------------------------- C29
\* How a timeout of each stage's own call shows in the job: the planner's
\* emergency plan (query_transformer.py:254-277), an empty result list of a
\* search (deep_search.py:326-346), no successful scrape (tasks.py:131-140),
\* the extractor's deadline (deep_search.py:463-466), the summarizer's
\* placeholder (deep_search.py:1004-1006).
PlannerFellBack == plan.note = "Using fallback search strategy"

SearchGaveNothing(i) ==
    /\ IsCall(trace[i], "search")
    /\ trace[i].content \in DOMAIN all_search_results
    /\ all_search_results[trace[i].content] = <<>>

ScrapeGaveNothing(i) ==
    /\ IsScrapeCall(trace[i])
    /\ i < Len(trace)
    /\ NoSuccessfulScrape(scraped_results)

SummaryPlaceholder == <<"Unable to generate analytical summary">>

\* Another external call follows position i of the trace.
CallFollows(i) == \E j \in (i + 1)..Len(trace) : trace[j].kind = "call"

\* The run is past extraction with the empty bag after the extractor's
\* deadline, and a run whose summarizer failed completed with the placeholder.
ExtractionAndAnalysisDegrade ==
    /\ extractor_outcome = "deadline" =>
          /\ structured_data = EmptyBag
          /\ \/ CallsOf("generator_llm") # <<>>
             \/ pc = "failed" /\ IsNone(history_arg)
    /\ analysis_summary = SummaryPlaceholder =>
          /\ pc = "completed"
          /\ published[Len(published)].type = "complete"
          /\ published[Len(published)].content = SummaryPlaceholder

C30_AtMostTwoAttempts ==
    /\ llm_attempts <= 2
    /\ (attempts = 2 /\ llm_attempts = 2) =>
          (html_pc = "returned" /\ ~html_result.success)

\* ----------------------------------------------------------------------- C31
\* A message content that is an artifact body: a Markdown report or an HTML
\* document.
IsArtifactBody(c) ==
    /\ c # <<>>
    /\ c[1] \in {"#", "<!DOCTYPE", "<html"}

\* C31: no assistant entry of the generator's conversation history is an
\* artifact body, after the history was rebuilt from the persisted turns and
\* after the run wrote its own turn.
C31_NoArtifactBodyInHistory ==
    ~IsNone(conversation_history) =>
        \A i \in 1..Len(conversation_history) :
            conversation_history[i].role = "assistant" =>
                ~IsArtifactBody(conversation_history[i].content)

\* ----------------------------------------------------------------------- C32
\* Positions in the consumer's stream of the events of the given types.
PositionsOf(types) == {i \in 1..Len(stream) : stream[i].type \in types}

\* C32: the stream of a run that completed holds exactly one artifact event
\* (html or markdown), every analysis_summary event comes after it, and done
\* is its last event and occurs once.
C32_OneArtifactThenDone ==
    pc = "completed" =>
        /\ Cardinality(PositionsOf({"html", "markdown"})) = 1
        /\ \A a \in PositionsOf({"html", "markdown"}) :
           \A x \in PositionsOf({"analysis_summary"}) : a < x
        /\ PositionsOf({"done"}) = {Len(stream)}

\* A run completed with an analysis summary in its stream.
C32_Witness ==
    /\ pc = "completed"
    /\ PositionsOf({"analysis_summary"}) # {}
    /\ PositionsOf({"markdown"}) # {}
    /\ stream[Len(stream)].type = "done"

\* ----------------------------------------------------------------------- C33
\* A successful scrape item: no error field and a non-empty best_chunk.
IsSuccessfulItem(s) == s.error = "None" /\ s.best_chunk # ""

\* C33: every reader of a list of scrape items takes as successful exactly
\* the items with no error field and a non-empty best_chunk.
C33_OneDefinitionOfSuccess ==
    \A reader \in Readers :
        selected[reader].done =>
            selected[reader].items
                = SelectSeq(scrape_items, LAMBDA s : IsSuccessfulItem(s))

\* ----------------------------------------------------------------------- C34
\* C34: once the generator is called on a plan that needs web search and
\* holds a query, the search provider has been called and a sources event
\* emitted.
C34_SearchBeforeGeneration ==
    (/\ PlanReceived
     /\ plan.web_search_needed
     /\ plan.search_queries # <<>>
     /\ CallsOf("generator_llm") # <<>>) =>
        /\ CallsOf("search") # <<>>
        /\ SourcesEvents # <<>>

\* C35: every invocation of WebScraper.scrape_urls yields exactly one event,
\* of type scrape_content or error, whatever the response; on a failure case
\* that event's content holds exactly one errored entry per requested url.
FailureCase(r) ==
    \/ r.body \in {"timeout", "exception", "json_error", "other"}
    \/ ~r.status200
    \/ r.body = "dict" /\ (~r.ok \/ r.results # "list")

C35_OneEventPerInvocation ==
    scrape_events.invoked =>
        LET evs == scrape_events.events
        IN  /\ Len(evs) = 1
            /\ evs[1].type \in {"scrape_content", "error"}
            /\ FailureCase(scrape_request.response) =>
                   evs[1].items = ErrorEntries(scrape_request.urls)

\* C36: two scrape_and_extract calls that interleave in one worker process do
\* not affect each other: each call chunks its pages with the chunk_size and
\* chunk_overlap it was given.
C36_CallsChunkWithOwnArguments ==
    \A c \in Calls :
        chunk_calls[c].pc = "chunked" =>
            chunk_calls[c].used = chunk_calls[c].given

\* C37: process_request makes at most max_attempts LLM calls and reports
\* attempts in 1..max_attempts; after a request that returns success=false,
\* current_json is what it was before the request, so it is None or a
\* structure that converts to HTML, and get_html does not raise.
C37_FailedRequestKeepsCurrentJson ==
    /\ llm_attempts <= max_attempts
    /\ html_pc = "returned" =>
           /\ html_result.attempts \in 1..max_attempts
           /\ ~html_result.success =>
                  /\ current_json = json_before
                  /\ current_json \in {"None", "page"}
                  /\ get_html(current_json) # "KeyError"

\* C38: at every moment the pages open in one browser number at most its
\* max_tabs_per_browser, and every page a worker_with_tab task opened is
\* closed and its semaphore slot released before the task finishes, also
\* when scraping raises: the open pages are those of the tasks still inside
\* the try block, and the slots taken are those of the tasks still inside
\* the async with block.
InsideTry ==
    tab_workers["scraping"] + tab_workers["closing_returns"]
        + tab_workers["closing_raises"]

C39_LiveBrowsersBounded ==
    live_browsers <= pool_size


============================================================================
